---- MODULE Spec2Model ----
(***************************************************************************)
(* A model of ligonlibrary/dataframes.py: df_to_orgtbl, the encoder of a   *)
(* table (pandas DataFrame) and its overlays into org-table text, with its *)
(* recursive stacking of a list of tables.                                 *)
(*                                                                         *)
(* Text is a sequence of one-character strings, so that the output can be  *)
(* split on "|" and trimmed like an org-table reader does.  Numbers are    *)
(* integers in tenths (20 is 2.0); t-statistics are thousandths.           *)
(***************************************************************************)
EXTENDS Integers, Sequences, FiniteSets, TLC

VARIABLES df, tdf, sedf, conf_ints, float_fmt, bonus_stats, math_delimiters,
          print_heading, s, pc, exc, orig, blocks, tprobe, tstars, warnings,
          dcall, frame, gdf, msg, mail

vars == <<df, tdf, sedf, conf_ints, float_fmt, bonus_stats, math_delimiters,
          print_heading, s, pc, exc, orig, blocks, tprobe, tstars, warnings,
          dcall, frame, gdf, msg, mail>>

\* the state of the calls of get_dataframe, _compose_message and
\* email_from_ligon, and the values it has while none of them runs
ioVars == <<gdf, msg, mail>>

IOIdle ==
  /\ gdf = <<>>
  /\ msg = <<>>
  /\ mail = <<>>

(***************************************************************************)
(* Bounds of the model.                                                    *)
(***************************************************************************)
MaxTables == 3
MaxRows == 2
MaxCols == 2
MaxT == 2600

(***************************************************************************)
(* Values.  A cell holds a number (in tenths), a null-equivalent value     *)
(* (None, NaN, pd.NA) or a non-numeric value; an overlay lookup may also   *)
(* find no entry at all (KeyError).                                        *)
(***************************************************************************)
Null == -9999
Absent == -9998
NonNum == -9997

IsNum(x) == x \notin {Null, Absent, NonNum}

Abs(x) == IF x < 0 THEN -x ELSE x

(***************************************************************************)
(* Text.                                                                   *)
(***************************************************************************)
RECURSIVE Join(_, _)
Join(sep, parts) ==
  IF Len(parts) = 0 THEN <<>>
  ELSE IF Len(parts) = 1 THEN parts[1]
  ELSE parts[1] \o sep \o Join(sep, Tail(parts))

RECURSIVE Repeat(_, _)
Repeat(t, n) == IF n <= 0 THEN <<>> ELSE t \o Repeat(t, n - 1)

RepeatList(x, n) == [k \in 1..n |-> x]

Digit(d) == <<"0", "1", "2", "3", "4", "5", "6", "7", "8", "9">>[d + 1]

RECURSIVE NatText(_)
NatText(n) == IF n < 10 THEN <<Digit(n)>> ELSE NatText(n \div 10) \o <<Digit(n % 10)>>

\* float_fmt % x for float_fmt = "%.<prec>f" and x a number in tenths
FormatFloat(prec, x) ==
  (IF x < 0 THEN <<"-">> ELSE <<>>)
    \o NatText(Abs(x) \div 10) \o <<".">> \o <<Digit(Abs(x) % 10)>>
    \o Repeat(<<"0">>, prec - 1)

\* str(x) of a non-numeric cell value
StrOf(x) == IF x = NonNum THEN <<"n", "/", "a">> ELSE FormatFloat(1, x)

\* pd.isna(x)
is_missing(x) == x = Null

(***************************************************************************)
(* Tables.  A table is [names, index, columns, cells]: names are the L     *)
(* index-level names, index the row keys (each a sequence of L labels),    *)
(* columns the column keys (each a sequence of C labels) and cells[r][c]   *)
(* the value of row r, column c.  Keys are unique, so the label lookup     *)
(* df[j][i] is the lookup by position.  An overlay grid is a function of   *)
(* <<row key, column key>>; its lookup raises KeyError (Absent) for a key  *)
(* outside its domain and for an entry it holds as Absent.                 *)
(***************************************************************************)
NRows(t) == Len(t.index)
NCols(t) == Len(t.columns)
Levels(t) == Len(t.names)
ColLevels(t) == IF NCols(t) = 0 THEN 1 ELSE Len(t.columns[1])

\* grid[j][i] for row r, column c of table t
Lookup(g, t, r, c) ==
  LET key == <<t.index[r], t.columns[c]>>
  IN IF key \in DOMAIN g THEN g[key] ELSE Absent

\* "" when a label is compared with nothing before it
NoLabel == <<>>

(***************************************************************************)
(* column_heading                                                          *)
(***************************************************************************)
\* the label printed for column l at level k: blanked when it equals the
\* label of the column before it at that level
ColHeadLabel(cols, k, l) ==
  LET lastcol == IF l = 1 THEN NoLabel ELSE cols[l - 1][k]
  IN IF lastcol = cols[l][k] THEN NoLabel ELSE cols[l][k]

ColHeadRow(t, k) == [l \in 1..NCols(t) |-> ColHeadLabel(t.columns, k, l)]

RECURSIVE ColHeadLines(_, _)
ColHeadLines(t, k) ==
  IF k > ColLevels(t) THEN <<>>
  ELSE (IF k < ColLevels(t)
          THEN Repeat(<<"|", " ">>, Levels(t)) \o <<" ", "|", " ">>
          ELSE <<"|", " ">> \o Join(<<" ", "|", " ">>, t.names) \o <<" ", "|", " ">>)
       \o Join(<<" ", "|", " ">>, ColHeadRow(t, k)) \o <<" ", " ", "|", "\n">>
       \o ColHeadLines(t, k + 1)

\* the index-level names left out of the one-row heading
column_heading_unnamed(t) ==
  IF ColLevels(t) = 1
    THEN Repeat(<<"|", " ">>, Levels(t)) \o <<" ", "|", " ">>
         \o Join(<<"|", " ", " ", " ">>, [l \in 1..NCols(t) |-> t.columns[l][1]])
         \o <<" ", " ", "|", "\n", "|", "-", "\n">>
    ELSE ColHeadLines(t, 1) \o <<"|", "-", "\n">>

column_heading(t) ==
  IF ColLevels(t) = 1
    THEN <<"|", " ">> \o Join(<<" ", "|", " ">>, t.names) \o <<" ", "|", " ">>
         \o Join(<<"|", " ", " ", " ">>, [l \in 1..NCols(t) |-> t.columns[l][1]])
         \o <<" ", " ", "|", "\n", "|", "-", "\n">>
    ELSE ColHeadLines(t, 1) \o <<"|", "-", "\n">>

(***************************************************************************)
(* format_entry                                                            *)
(***************************************************************************)
\* the missing-value test made after the delimiters and stars are attached
format_entry_late(x, stars, se, fmt, math) ==
  LET body == (IF is_missing(x) THEN <<"-", "-", "-">> ELSE FormatFloat(fmt, x)) \o stars
      inner == IF se THEN <<"(">> \o body \o <<")">> ELSE body
  IN IF math THEN <<"|", " ", "\\", "(">> \o inner \o <<"\\", ")", " ">>
             ELSE <<"|", " ">> \o inner \o <<" ">>

\* the stars attached after the closing delimiter
format_entry_stars_outside(x, stars, se, fmt, math) ==
  IF is_missing(x) THEN <<"|", " ", "-", "-", "-", " ">>
  ELSE IF ~IsNum(x) THEN <<"|", " ">> \o StrOf(x) \o <<" ">>
  ELSE LET body == FormatFloat(fmt, x)
           inner == IF se THEN <<"(">> \o body \o <<")">> ELSE body
       IN IF math THEN <<"|", " ", "\\", "(">> \o inner \o <<"\\", ")">> \o stars \o <<" ">>
                  ELSE <<"|", " ">> \o inner \o stars \o <<" ">>

format_entry(x, stars, se, fmt, math) ==
  IF is_missing(x) THEN <<"|", " ", "-", "-", "-", " ">>
  ELSE IF ~IsNum(x) THEN <<"|", " ">> \o StrOf(x) \o <<" ">>
  ELSE LET body == FormatFloat(fmt, x) \o stars
           inner == IF se THEN <<"(">> \o body \o <<")">> ELSE body
       IN IF math THEN <<"|", " ", "\\", "(">> \o inner \o <<"\\", ")", " ">>
                  ELSE <<"|", " ">> \o inner \o <<" ">>

(***************************************************************************)
(* Significance stars.  A t-statistic is [found, n, d]: found is FALSE     *)
(* when tdf[j][i] raises KeyError, else the value is n/d, with d = 0 for   *)
(* an infinite (n # 0) or NaN (n = 0) quotient.                            *)
(***************************************************************************)
Thr1 == 1650
Thr2 == 1960
Thr3 == 2577

TNaN == [found |-> TRUE, n |-> 0, d |-> 0]
TMiss == [found |-> FALSE, n |-> 0, d |-> 0]
TOf(v) == IF v = Absent THEN TMiss
          ELSE IF ~IsNum(v) THEN TNaN
          ELSE [found |-> TRUE, n |-> v, d |-> 1000]

\* np.abs(t) > thr / 1000
Exceeds(t, thr) ==
  IF t.d = 0 THEN t.n # 0 ELSE Abs(t.n) * 1000 > thr * Abs(t.d)

B2I(b) == IF b THEN 1 ELSE 0

StarText(n) == IF n > 0 THEN <<"^", "{">> \o Repeat(<<"*">>, n) \o <<"}">> ELSE <<>>

\* lines 217-228, t-statistics only
StarCountT(t) == B2I(Exceeds(t, Thr1)) + B2I(Exceeds(t, Thr2)) + B2I(Exceeds(t, Thr3))
StarsT(t) == IF t.found THEN StarText(StarCountT(t)) ELSE <<>>

\* lines 254-267, standard errors
StarCountSE(t) == B2I(Exceeds(t, Thr1)) + B2I(Exceeds(t, Thr2)) + B2I(Exceeds(t, Thr3))
StarsSE(t) == IF t.found THEN StarText(StarCountSE(t)) ELSE <<>>

\* lines 304-317, confidence intervals
StarCountCIOrEqual(t) ==
  B2I(Exceeds(t, Thr1)) + B2I(Exceeds(t, Thr2 - 1)) + B2I(Exceeds(t, Thr3))
StarCountCI(t) == B2I(Exceeds(t, Thr1)) + B2I(Exceeds(t, Thr2)) + B2I(Exceeds(t, Thr3))
StarsCI(t) == IF t.found THEN StarText(StarCountCI(t)) ELSE <<>>

\* the quotient taken the wrong way round
DerivedTInverse(pt, se) ==
  IF se = Absent THEN TMiss
  ELSE IF ~IsNum(pt) \/ ~IsNum(se) THEN TNaN
  ELSE [found |-> TRUE, n |-> se, d |-> pt]

\* tdf = df[sedf.columns] / sedf, at one cell
DerivedT(pt, se) ==
  IF se = Absent THEN TMiss
  ELSE IF ~IsNum(pt) \/ ~IsNum(se) THEN TNaN
  ELSE [found |-> TRUE, n |-> pt, d |-> se]

(***************************************************************************)
(* Overlay arguments of one single-table call.                             *)
(*   tdf         [kind: "none" | "false" | "grid", g]                      *)
(*   sedf        [kind: "none" | "grid", g]                                *)
(*   conf_ints   [kind: "none" | "pair", lo, hi]                           *)
(*   bonus_stats [kind: "none" | "frame" | "series", rows], rows[r] being  *)
(*               [found, vals]: the texts the grid holds for row r         *)
(***************************************************************************)
Flatten(parts) == Join(<<>>, parts)

\* every label printed, repeated or not
IndexCellUnsuppressed(t, r, k) ==
  <<"|", " ">> \o t.index[r][k] \o <<" ">>

\* the leading index cells of row r (lines 188-198, repeated at 205-215,
\* 241-251 and 291-301)
IndexCell(t, r, k) ==
  LET lastidx == IF r = 1 THEN NoLabel ELSE t.index[r - 1][k]
  IN IF lastidx # t.index[r][k]
       THEN <<"|", " ">> \o t.index[r][k] \o <<" ">>
       ELSE <<"|", " ">>

RowLead(t, r) ==
  IF Levels(t) = 1
    THEN <<"|", " ">> \o t.index[r][1] \o <<" ", " ">>
    ELSE Flatten([k \in 1..Levels(t) |-> IndexCell(t, r, k)])

se_linestart(t, stats, r) ==
  IF stats.kind = "none" THEN Repeat(<<"|">>, Levels(t))
  ELSE IF stats.kind = "frame"
    THEN Join(<<" ", "|", " ">>,
              RepeatList(<<>>, Levels(t) - Len(stats.rows[r].vals) + 1)
                \o stats.rows[r].vals)
    ELSE <<" ", "|", " ">> \o stats.rows[r].vals[1]

\* the assertion on the number of values left out
se_linestart_exc_unasserted(t, stats, r) ==
  IF stats.kind = "none" THEN "none"
  ELSE IF ~stats.rows[r].found THEN "KeyError"
  ELSE "none"

\* the exception se_linestart raises for row r, or "none"
se_linestart_exc(t, stats, r) ==
  IF stats.kind = "none" THEN "none"
  ELSE IF ~stats.rows[r].found THEN "KeyError"
  ELSE IF stats.kind = "frame" /\ Levels(t) < Len(stats.rows[r].vals)
    THEN "AssertionError"
  ELSE "none"

\* the first exception among excs (in row order), or "none"
FirstExc(excs) ==
  IF \E k \in 1..Len(excs) : excs[k] # "none"
    THEN excs[CHOOSE k \in 1..Len(excs) :
                /\ excs[k] # "none"
                /\ \A m \in 1..(k - 1) : excs[m] = "none"]
    ELSE "none"

(***************************************************************************)
(* The four bodies of df_to_orgtbl, one per annotation mode.               *)
(***************************************************************************)
\* key n of keys occurs more than once
Duplicated(keys, n) == \E m \in 1..Len(keys) : m # n /\ keys[m] = keys[n]
HasDuplicates(keys) == \E n \in 1..Len(keys) : Duplicated(keys, n)

\* lines 107-113: the warnings about duplicate keys
Warnings(t) ==
  (IF HasDuplicates(t.index) THEN <<"index">> ELSE <<>>)
    \o (IF HasDuplicates(t.columns) THEN <<"columns">> ELSE <<>>)

\* df[j][i] and format_entry on it (lines 200-201): under a duplicated
\* column label df[j] is a frame, and [i] on it looks i up among the columns
\* (KeyError); under a duplicated row label df[j][i] is a Series, and
\* "if is_missing(x)" on it is the truth value of a Series (ValueError)
PlainCellExc(t, r, c) ==
  IF Duplicated(t.columns, c) THEN "KeyError"
  ELSE IF Duplicated(t.index, r) THEN "ValueError"
  ELSE "none"

\* lines 187-203
BodyPlain(t, a) ==
  Flatten([r \in 1..NRows(t) |->
    RowLead(t, r)
      \o Flatten([c \in 1..NCols(t) |->
           format_entry(t.cells[r][c], <<>>, FALSE, a.float_fmt, a.math_delimiters)])
      \o <<"|", "\n">>])

\* lines 204-233
BodyT(t, a) ==
  Flatten([r \in 1..NRows(t) |->
    RowLead(t, r)
      \o Flatten([c \in 1..NCols(t) |->
           format_entry(t.cells[r][c], StarsT(TOf(Lookup(a.tdf.g, t, r, c))), FALSE,
                        a.float_fmt, a.math_delimiters)])
      \o <<"|", "\n">>])

\* tdf[j][i] with tdf = False: 'bool' object is not subscriptable
BodyTExc(t, a) ==
  IF a.tdf.kind = "false" /\ NRows(t) > 0 /\ NCols(t) > 0 THEN "TypeError" ELSE "none"

\* the t-statistic behind the stars of cell (r, c), lines 235-239 and 286-290
TStat(t, a, r, c) ==
  IF a.tdf.kind = "grid" THEN TOf(Lookup(a.tdf.g, t, r, c))
  ELSE IF a.sedf.kind = "grid" THEN DerivedT(t.cells[r][c], Lookup(a.sedf.g, t, r, c))
  ELSE TMiss

\* df[sedf.columns] / sedf on a non-numeric cell
DeriveExc(t, a) ==
  IF /\ a.tdf.kind = "none"
     /\ a.sedf.kind = "grid"
     /\ \E r \in 1..NRows(t), c \in 1..NCols(t) :
          Lookup(a.sedf.g, t, r, c) # Absent /\ (t.cells[r][c] = NonNum \/ Lookup(a.sedf.g, t, r, c) = NonNum)
    THEN "TypeError" ELSE "none"

\* lines 270-283: the text of column c in the standard-error line of row r
SEEntry(t, a, r, c) ==
  IF is_missing(t.cells[r][c]) THEN <<>>
  ELSE IF Lookup(a.sedf.g, t, r, c) = Absent THEN <<"|", " ", " ">>
  ELSE IF is_missing(Lookup(a.sedf.g, t, r, c)) THEN <<"(", "-", "-", "-", ")">>
  ELSE format_entry(Lookup(a.sedf.g, t, r, c), <<>>, TRUE, a.float_fmt, a.math_delimiters)

\* every point-estimate line ahead of every standard-error line
BodySEPointsFirst(t, a) ==
  Flatten([r \in 1..NRows(t) |->
    RowLead(t, r)
      \o Flatten([c \in 1..NCols(t) |->
           format_entry(t.cells[r][c],
                        IF a.tdf.kind # "false" THEN StarsSE(TStat(t, a, r, c)) ELSE <<>>,
                        FALSE, a.float_fmt, a.math_delimiters)])
      \o <<"|", "\n">>])
  \o Flatten([r \in 1..NRows(t) |->
       se_linestart(t, a.bonus_stats, r)
         \o Flatten([c \in 1..NCols(t) |-> <<" ", " ">> \o SEEntry(t, a, r, c)])
         \o <<"|", "\n">>])

\* lines 234-284
BodySE(t, a) ==
  Flatten([r \in 1..NRows(t) |->
    RowLead(t, r)
      \o Flatten([c \in 1..NCols(t) |->
           format_entry(t.cells[r][c],
                        IF a.tdf.kind # "false" THEN StarsSE(TStat(t, a, r, c)) ELSE <<>>,
                        FALSE, a.float_fmt, a.math_delimiters)])
      \o <<"|", "\n">> \o se_linestart(t, a.bonus_stats, r)
      \o Flatten([c \in 1..NCols(t) |-> <<" ", " ">> \o SEEntry(t, a, r, c)])
      \o <<"|", "\n">>])

BodySEExc(t, a) ==
  IF DeriveExc(t, a) # "none" THEN DeriveExc(t, a)
  ELSE FirstExc([r \in 1..NRows(t) |-> se_linestart_exc(t, a.bonus_stats, r)])

\* the entry with the lower bound printed twice
CIEntryLowerTwice(t, a, r, c) ==
  LET lower == Lookup(a.conf_ints.lo, t, r, c)
      upper == Lookup(a.conf_ints.hi, t, r, c)
      ci == IF lower = Absent \/ upper = Absent THEN <<>>
            ELSE IF is_missing(lower) \/ is_missing(upper) THEN <<"-", "-", "-">>
            ELSE <<"[">> \o FormatFloat(a.float_fmt, lower) \o <<",">>
                   \o FormatFloat(a.float_fmt, lower) \o <<"]">>
  IN <<"|", " ">> \o ci \o <<" ", " ">>

\* lines 321-334: the text of column c in the confidence-interval line of row r
CIEntry(t, a, r, c) ==
  LET lower == Lookup(a.conf_ints.lo, t, r, c)
      upper == Lookup(a.conf_ints.hi, t, r, c)
      ci == IF lower = Absent \/ upper = Absent THEN <<>>
            ELSE IF is_missing(lower) \/ is_missing(upper) THEN <<"-", "-", "-">>
            ELSE <<"[">> \o FormatFloat(a.float_fmt, lower) \o <<",">>
                   \o FormatFloat(a.float_fmt, upper) \o <<"]">>
  IN <<"|", " ">> \o ci \o <<" ", " ">>

\* "[%f,%f]" % (lower, upper) on a non-numeric bound
CIEntryExc(t, a, r, c) ==
  LET lower == Lookup(a.conf_ints.lo, t, r, c)
      upper == Lookup(a.conf_ints.hi, t, r, c)
  IN IF /\ lower # Absent /\ upper # Absent
        /\ ~is_missing(lower) /\ ~is_missing(upper)
        /\ (lower = NonNum \/ upper = NonNum)
       THEN "TypeError" ELSE "none"

\* lines 285-336
BodyCI(t, a) ==
  Flatten([r \in 1..NRows(t) |->
    RowLead(t, r)
      \o Flatten([c \in 1..NCols(t) |->
           format_entry(t.cells[r][c],
                        IF a.tdf.kind # "false" /\ (a.tdf.kind = "grid" \/ a.sedf.kind = "grid")
                          THEN StarsCI(TStat(t, a, r, c)) ELSE <<>>,
                        FALSE, a.float_fmt, a.math_delimiters)])
      \o <<"|", "\n">> \o se_linestart(t, a.bonus_stats, r)
      \o Flatten([c \in 1..NCols(t) |-> <<" ", " ">> \o CIEntry(t, a, r, c)])
      \o <<"|", "\n">>])

BodyCIExc(t, a) ==
  IF DeriveExc(t, a) # "none" THEN DeriveExc(t, a)
  ELSE FirstExc([r \in 1..NRows(t) |->
         IF se_linestart_exc(t, a.bonus_stats, r) # "none"
           THEN se_linestart_exc(t, a.bonus_stats, r)
           ELSE FirstExc([c \in 1..NCols(t) |-> CIEntryExc(t, a, r, c)])])

\* standard errors taking precedence over confidence intervals
ModeSEFirst(a) ==
  IF a.tdf.kind = "none" /\ a.sedf.kind = "none" /\ a.conf_ints.kind = "none" THEN "plain"
  ELSE IF a.tdf.kind # "none" /\ a.sedf.kind = "none" /\ a.conf_ints.kind = "none" THEN "t"
  ELSE IF a.sedf.kind # "none" THEN "se"
  ELSE "ci"

\* the branch taken at lines 187, 204, 234, 285
Mode(a) ==
  IF a.tdf.kind = "none" /\ a.sedf.kind = "none" /\ a.conf_ints.kind = "none" THEN "plain"
  ELSE IF a.tdf.kind # "none" /\ a.sedf.kind = "none" /\ a.conf_ints.kind = "none" THEN "t"
  ELSE IF a.sedf.kind # "none" /\ a.conf_ints.kind = "none" THEN "se"
  ELSE "ci"

Body(t, a) ==
  CASE Mode(a) = "plain" -> BodyPlain(t, a)
    [] Mode(a) = "t" -> BodyT(t, a)
    [] Mode(a) = "se" -> BodySE(t, a)
    [] Mode(a) = "ci" -> BodyCI(t, a)

BodyPlainExc(t) ==
  FirstExc([r \in 1..NRows(t) |->
    FirstExc([c \in 1..NCols(t) |-> PlainCellExc(t, r, c)])])

BodyExc(t, a) ==
  CASE Mode(a) = "plain" -> BodyPlainExc(t)
    [] Mode(a) = "t" -> BodyTExc(t, a)
    [] Mode(a) = "se" -> BodySEExc(t, a)
    [] Mode(a) = "ci" -> BodyCIExc(t, a)

\* df_to_orgtbl on one table (lines 104-336): the exception it raises, or
\* "none" and the text it returns
EncodeExc(t, a) == BodyExc(t, a)

EncodeText(t, a) ==
  (IF a.print_heading THEN column_heading(t) ELSE <<>>) \o Body(t, a)

(***************************************************************************)
(* The call.  Every argument is [isList, items]: a Python list of items,   *)
(* or (isList FALSE) the one value items[1].  df_to_orgtbl pops the lists  *)
(* it is given, so the arguments are state.  Lists given together have the *)
(* length of the list of tables.                                           *)
(***************************************************************************)
Scalar(v) == [isList |-> FALSE, items |-> <<v>>]
List(vs) == [isList |-> TRUE, items |-> vs]

\* x.pop() with the default index: the last element
mypop_last(x) == x.items[Len(x.items)]

\* mypop(x, 0): the value handed to the single-table call (lines 56-63)
mypop(x) == x.items[1]

\* what mypop(x, 0) leaves in the caller's object
AfterPop(x) == IF x.isList THEN [x EXCEPT !.items = Tail(@)] ELSE x

\* x.pop(0) of a DataFrame, Series or dict looks up the key 0: KeyError is
\* not among the exceptions mypop catches
mypop_exc(x) ==
  IF ~x.isList /\ x.items[1].kind \in {"grid", "frame", "series"}
    THEN "KeyError" ELSE "none"

PoppedArgs(heading) ==
  [tdf |-> mypop(tdf), sedf |-> mypop(sedf), conf_ints |-> mypop(conf_ints),
   float_fmt |-> mypop(float_fmt), bonus_stats |-> mypop(bonus_stats),
   math_delimiters |-> mypop(math_delimiters), print_heading |-> heading]

PopExc ==
  FirstExc(<<mypop_exc(tdf), mypop_exc(sedf), mypop_exc(bonus_stats)>>)

\* np.all(df[0].columns == col0), line 82; comparing two Index objects of
\* different lengths raises ValueError
SameColumnsNever(cols, col0) == FALSE
SameColumnsByCount(cols, col0) == Len(cols) = Len(col0)
SameColumns(cols, col0) == cols = col0
SameColumnsExc(cols, col0) ==
  IF Len(cols) # Len(col0) THEN "ValueError" ELSE "none"

\* df is not a list: lines 104-336
Single ==
  /\ pc = "start"
  /\ ~df.isList
  /\ LET a == PoppedArgs(print_heading)
         e == EncodeExc(df.items[1], a)
     IN /\ exc' = e
        /\ pc' = IF e = "none" THEN "done" ELSE "raised"
        /\ s' = IF e = "none" THEN EncodeText(df.items[1], a) ELSE s
        /\ blocks' = Append(blocks, [tbl |-> df.items[1], args |-> a])
        /\ warnings' = warnings \o Warnings(df.items[1])
  /\ UNCHANGED <<df, tdf, sedf, conf_ints, float_fmt, bonus_stats,
                 math_delimiters, print_heading, orig, tprobe, tstars, dcall, frame, ioVars>>

\* df is an empty list: lines 65-67
Empty ==
  /\ pc = "start"
  /\ df.isList
  /\ Len(df.items) = 0
  /\ pc' = "done"
  /\ s' = <<>>
  /\ UNCHANGED <<df, tdf, sedf, conf_ints, float_fmt, bonus_stats,
                 math_delimiters, print_heading, exc, orig, blocks, tprobe, tstars,
                 warnings, dcall, frame, ioVars>>

\* df is a list with a first element: one invocation of lines 65-102, up to
\* its return or its recursive call on the list it has shortened
Stack ==
  /\ pc \in {"start", "rec"}
  /\ df.isList
  /\ Len(df.items) > 0
  /\ LET col0 == df.items[1].columns
         a == PoppedArgs(print_heading)
         rest == Tail(df.items)
         e1 == PopExc
         e2 == IF e1 # "none" THEN e1 ELSE EncodeExc(df.items[1], a)
         e3 == IF e2 # "none" \/ Len(rest) = 0 THEN e2
               ELSE SameColumnsExc(rest[1].columns, col0)
     IN /\ df' = AfterPop(df)
        /\ tdf' = AfterPop(tdf)
        /\ sedf' = IF mypop_exc(tdf) = "none" THEN AfterPop(sedf) ELSE sedf
        /\ conf_ints' = IF mypop_exc(tdf) = "none" /\ mypop_exc(sedf) = "none"
                          THEN AfterPop(conf_ints) ELSE conf_ints
        /\ float_fmt' = IF mypop_exc(tdf) = "none" /\ mypop_exc(sedf) = "none"
                          THEN AfterPop(float_fmt) ELSE float_fmt
        /\ bonus_stats' = IF mypop_exc(tdf) = "none" /\ mypop_exc(sedf) = "none"
                            THEN AfterPop(bonus_stats) ELSE bonus_stats
        /\ math_delimiters' = IF e1 = "none" THEN AfterPop(math_delimiters)
                              ELSE math_delimiters
        /\ exc' = e3
        /\ blocks' = IF e1 = "none"
                       THEN Append(blocks, [tbl |-> df.items[1], args |-> a])
                       ELSE blocks
        /\ warnings' = IF e1 = "none" THEN warnings \o Warnings(df.items[1])
                         ELSE warnings
        /\ IF e3 # "none"
             THEN /\ pc' = "raised"
                  /\ UNCHANGED <<s, print_heading>>
             ELSE IF Len(rest) > 0
               THEN /\ pc' = "rec"
                    /\ print_heading' = ~SameColumns(rest[1].columns, col0)
                    /\ s' = s \o EncodeText(df.items[1], a) \o <<"|", "-", "\n">>
               ELSE /\ pc' = "done"
                    /\ s' = s \o EncodeText(df.items[1], a)
                    /\ UNCHANGED print_heading
  /\ UNCHANGED <<orig, tprobe, tstars, dcall, frame, ioVars>>

Next == Single \/ Empty \/ Stack

(***************************************************************************)
(* Inputs.                                                                 *)
(***************************************************************************)
NoGrid == <<>>
TdfNone == [kind |-> "none", g |-> NoGrid]
TdfFalse == [kind |-> "false", g |-> NoGrid]
SedfNone == [kind |-> "none", g |-> NoGrid]
ConfNone == [kind |-> "none", lo |-> NoGrid, hi |-> NoGrid]
BonusNone == [kind |-> "none", rows |-> <<>>]
GridOf(g) == [kind |-> "grid", g |-> g]
PairOf(lo, hi) == [kind |-> "pair", lo |-> lo, hi |-> hi]

PtVals == {Null, 18, -30}
SeVals == {Absent, Null, 10, 15}
TVals == {Absent, 1650, 1961, -2578}
LoHiVals == {<<8, 12>>, <<Null, 12>>, <<8, Null>>, <<Absent, 12>>, <<8, Absent>>}
FmtPrecs == {1, 2}

\* the sequences over S of length n with no element twice
DistinctSeqs(S, n) ==
  {q \in [1..n -> S] : \A x, y \in 1..n : x # y => q[x] # q[y]}

RowPos(t, i) == CHOOSE r \in 1..NRows(t) : t.index[r] = i
ColPos(t, j) == CHOOSE c \in 1..NCols(t) : t.columns[c] = j

\* the overlay grid of table t that holds m[r][c] for row r, column c
KeyGrid(t, m) ==
  [key \in {<<t.index[r], t.columns[c]>> : r \in 1..NRows(t), c \in 1..NCols(t)} |->
     m[RowPos(t, key[1])][ColPos(t, key[2])]]

ConstGrid(t, v) == KeyGrid(t, [r \in 1..NRows(t) |-> [c \in 1..NCols(t) |-> v]])

ColLabel(c) == <<"A", "B", "C", "D">>[c]
RowLabel(r) == <<"r", "s", "t", "u">>[r]

\* a table with a single-level unnamed index and single-level columns
PlainTable(cols, cells) ==
  [names |-> <<NoLabel>>,
   index |-> [r \in 1..Len(cells) |-> <<<<RowLabel(r)>>>>],
   columns |-> [c \in 1..Len(cols) |-> <<<<cols[c]>>>>],
   cells |-> cells]

(***************************************************************************)
(* Cases of one cell: its point estimate pt and its entries t, se and      *)
(* lh = <<lower, upper>> in the overlay grids.  A scenario fixes which     *)
(* overlays are passed and the cases its cells are drawn from.             *)
(***************************************************************************)
Cases(P, T, S, LH) == [pt : P, t : T, se : S, lh : LH]
NoLH == <<Absent, Absent>>

Scenario(tk, sk, ck, cases) == [tdf |-> tk, sedf |-> sk, conf |-> ck, cases |-> cases]

Scenarios ==
  { Scenario("none", "none", "none", Cases(PtVals, {Absent}, {Absent}, {NoLH})),
    Scenario("grid", "none", "none", Cases(PtVals, TVals, {Absent}, {NoLH})),
    Scenario("false", "none", "none", Cases(PtVals, {Absent}, {Absent}, {NoLH})),
    Scenario("none", "grid", "none", Cases(PtVals, {Absent}, SeVals, {NoLH})),
    Scenario("false", "grid", "none", Cases(PtVals, {Absent}, SeVals, {NoLH})),
    Scenario("grid", "grid", "none", Cases(PtVals, {Absent, 1961}, {Absent, Null, 10}, {NoLH})),
    Scenario("none", "none", "pair", Cases(PtVals, {Absent}, {Absent}, LoHiVals)),
    Scenario("false", "none", "pair", Cases(PtVals, {Absent}, {Absent}, LoHiVals)),
    Scenario("grid", "none", "pair", Cases(PtVals, TVals, {Absent}, {<<8, 12>>})),
    Scenario("none", "grid", "pair", Cases(PtVals, {Absent}, {Absent, Null, 10}, {<<8, 12>>})),
    Scenario("false", "grid", "pair", Cases(PtVals, {Absent}, {Absent, Null, 10}, {<<8, 12>>})),
    Scenario("grid", "grid", "pair", Cases(PtVals, {Absent, 1961}, {10}, {<<8, 12>>})) }

\* the overlays of scenario sc for table t whose one row has the cases cs
OverlayCall(t, sc, cs, bonus, fmt, math, heading) ==
  LET C == Len(cs)
  IN [df |-> Scalar(t),
      tdf |-> Scalar(IF sc.tdf = "grid"
                       THEN GridOf(KeyGrid(t, <<[c \in 1..C |-> cs[c].t]>>))
                       ELSE IF sc.tdf = "false" THEN TdfFalse ELSE TdfNone),
      sedf |-> Scalar(IF sc.sedf = "grid"
                        THEN GridOf(KeyGrid(t, <<[c \in 1..C |-> cs[c].se]>>))
                        ELSE SedfNone),
      conf_ints |-> Scalar(IF sc.conf = "pair"
                             THEN PairOf(KeyGrid(t, <<[c \in 1..C |-> cs[c].lh[1]]>>),
                                         KeyGrid(t, <<[c \in 1..C |-> cs[c].lh[2]]>>))
                             ELSE ConfNone),
      float_fmt |-> Scalar(fmt),
      bonus_stats |-> Scalar(bonus),
      math_delimiters |-> Scalar(math),
      print_heading |-> heading]

\* one table of one row, every overlay combination, every pattern of values
CellsCall(sc, cs, fmt, math) ==
  OverlayCall(PlainTable([c \in 1..Len(cs) |-> ColLabel(c)],
                         <<[c \in 1..Len(cs) |-> cs[c].pt]>>),
              sc, cs, BonusNone, fmt, math, TRUE)

(***************************************************************************)
(* Tables with hierarchical row and column keys.                           *)
(***************************************************************************)
RowLabs == {<<"a">>, <<"b">>}
ColLabs == {<<"x">>, <<"y">>}
KeysOf(labs, levels) == [1..levels -> labs]
IndexNames(levels) == IF levels = 1 THEN <<NoLabel>> ELSE [k \in 1..levels |-> <<"i">>]

LabelTable(idx, cols) ==
  [names |-> IndexNames(Len(idx[1])), index |-> idx, columns |-> cols,
   cells |-> [r \in 1..Len(idx) |-> [c \in 1..Len(cols) |-> 18]]]

LabelIndexes ==
  UNION {DistinctSeqs(KeysOf(RowLabs, L), R) : L \in {1, 2}, R \in 1..MaxRows}

LabelColumns ==
  UNION {DistinctSeqs(KeysOf(ColLabs, CL), C) : CL \in {1, 2}, C \in 1..MaxCols}

LabelCall(t, se, heading) ==
  [df |-> Scalar(t), tdf |-> Scalar(IF se THEN TdfFalse ELSE TdfNone),
   sedf |-> Scalar(IF se THEN GridOf(ConstGrid(t, 10)) ELSE SedfNone),
   conf_ints |-> Scalar(ConfNone), float_fmt |-> Scalar(1),
   bonus_stats |-> Scalar(BonusNone), math_delimiters |-> Scalar(FALSE),
   print_heading |-> heading]

(***************************************************************************)
(* Bonus statistics: a frame of n texts per row, or one text per row (a    *)
(* Series or a dict), with or without an entry for the row.                *)
(***************************************************************************)
BonusVals(n) == [k \in 1..n |-> <<"N">>]

BonusSet(L) ==
  {[kind |-> "frame", rows |-> <<[found |-> f, vals |-> BonusVals(n)]>>] :
     n \in 0..(L + 1), f \in BOOLEAN}
  \cup {[kind |-> "series", rows |-> <<[found |-> f, vals |-> BonusVals(1)]>>] :
          f \in BOOLEAN}

BonusCase == [pt |-> 18, t |-> Absent, se |-> 10, lh |-> <<8, 12>>]

\* the overlays that put a call with bonus statistics in mode m
BonusModes == {"plain", "t", "se", "ci"}
BonusScenario(m) ==
  CASE m = "plain" -> Scenario("none", "none", "none", {BonusCase})
    [] m = "t" -> Scenario("grid", "none", "none", {BonusCase})
    [] m = "se" -> Scenario("false", "grid", "none", {BonusCase})
    [] m = "ci" -> Scenario("false", "grid", "pair", {BonusCase})

BonusCall(L, C, m, b) ==
  OverlayCall(LabelTable(<<[k \in 1..L |-> <<"a">>]>>,
                         [c \in 1..C |-> <<<<ColLabel(c)>>>>]),
              BonusScenario(m),
              [c \in 1..C |-> BonusCase], b, 1, FALSE, TRUE)

(***************************************************************************)
(* Lists of tables, with overlays given as one value or as parallel lists. *)
(***************************************************************************)
TableA == PlainTable(<<"A">>, <<<<18>>>>)

StackTables ==
  { TableA,
    PlainTable(<<"A">>, <<<<-30>>>>),
    PlainTable(<<"A", "B">>, <<<<18, 18>>>>),
    PlainTable(<<"B", "A">>, <<<<18, 18>>>>) }

StackCall(ts, v, b, heading) ==
  LET N == Len(ts)
  IN [df |-> List(ts),
      tdf |-> IF v = "tlist"
                THEN List([k \in 1..N |->
                            IF b[k] THEN GridOf(ConstGrid(ts[k], 1961)) ELSE TdfNone])
                ELSE IF v = "tgrid" THEN Scalar(GridOf(ConstGrid(TableA, 1961)))
                ELSE Scalar(TdfNone),
      sedf |-> IF v = "selist"
                 THEN List([k \in 1..N |->
                             IF b[k] THEN GridOf(ConstGrid(ts[k], 10)) ELSE SedfNone])
                 ELSE Scalar(SedfNone),
      conf_ints |-> IF v = "pair"
                      THEN Scalar(PairOf(ConstGrid(TableA, 8), ConstGrid(TableA, 12)))
                      ELSE Scalar(ConfNone),
      float_fmt |-> IF v = "fmtlist"
                      THEN List([k \in 1..N |-> IF b[k] THEN 1 ELSE 2])
                      ELSE Scalar(2),
      bonus_stats |-> Scalar(BonusNone),
      math_delimiters |-> IF v = "fmtlist"
                            THEN List([k \in 1..N |-> b[k]])
                            ELSE Scalar(FALSE),
      print_heading |-> heading]

StartWith(c) ==
  /\ df = c.df
  /\ tdf = c.tdf
  /\ sedf = c.sedf
  /\ conf_ints = c.conf_ints
  /\ float_fmt = c.float_fmt
  /\ bonus_stats = c.bonus_stats
  /\ math_delimiters = c.math_delimiters
  /\ print_heading = c.print_heading
  /\ orig = c
  /\ s = <<>>
  /\ pc = "start"
  /\ exc = "none"
  /\ warnings = <<>>
  /\ dcall = <<>>
  /\ frame = <<>>
  /\ IOIdle
  /\ blocks = <<>>
  /\ tprobe = 0
  /\ tstars = <<>>

\* one table of one row: every overlay combination and pattern of values
InitCells ==
  \E sc \in Scenarios, C \in 1..MaxCols, fmt \in FmtPrecs, math \in BOOLEAN :
    \E cs \in [1..C -> sc.cases] : StartWith(CellsCall(sc, cs, fmt, math))

\* one table with hierarchical keys, plain or with standard errors
InitLabels ==
  \E idx \in LabelIndexes, cols \in LabelColumns, se \in BOOLEAN, heading \in BOOLEAN :
    StartWith(LabelCall(LabelTable(idx, cols), se, heading))

\* one table with bonus statistics
InitBonus ==
  \E L \in {1, 2}, C \in 1..MaxCols, m \in BonusModes :
    \E b \in BonusSet(L) : StartWith(BonusCall(L, C, m, b))

\* one row of cells, some holding a value that is not a number
TextScenarios ==
  { Scenario("none", "none", "none", Cases({NonNum, 18}, {Absent}, {Absent}, {NoLH})),
    Scenario("false", "grid", "none", Cases({NonNum, 18}, {Absent}, {10}, {NoLH})),
    Scenario("none", "grid", "none", Cases({NonNum, 18}, {Absent}, {10}, {NoLH})),
    Scenario("false", "none", "pair",
             Cases({18}, {Absent}, {Absent}, {<<NonNum, 12>>, <<8, NonNum>>, <<8, 12>>})) }

InitText ==
  \E sc \in TextScenarios, C \in 1..MaxCols, math \in BOOLEAN :
    \E cs \in [1..C -> sc.cases] : StartWith(CellsCall(sc, cs, 1, math))

\* one table whose row labels or column labels repeat
DupLabels == {1, 2}
DupTable(idx, cols) ==
  [names |-> <<NoLabel>>,
   index |-> [r \in 1..Len(idx) |-> <<<<RowLabel(idx[r])>>>>],
   columns |-> [c \in 1..Len(cols) |-> <<<<ColLabel(cols[c])>>>>],
   cells |-> [r \in 1..Len(idx) |-> [c \in 1..Len(cols) |-> 18]]]

DupCall(t, heading) ==
  [df |-> Scalar(t), tdf |-> Scalar(TdfNone), sedf |-> Scalar(SedfNone),
   conf_ints |-> Scalar(ConfNone), float_fmt |-> Scalar(1),
   bonus_stats |-> Scalar(BonusNone), math_delimiters |-> Scalar(FALSE),
   print_heading |-> heading]

InitDup ==
  \E R \in 1..MaxRows, C \in 1..MaxCols, heading \in BOOLEAN :
    \E idx \in [1..R -> DupLabels], cols \in [1..C -> DupLabels] :
      /\ HasDuplicates(idx) \/ HasDuplicates(cols)
      /\ StartWith(DupCall(DupTable(idx, cols), heading))

\* a list of tables
InitStack ==
  \E N \in 0..MaxTables, heading \in BOOLEAN :
    \E ts \in [1..N -> StackTables] :
      \/ \E v \in {"plain", "tgrid", "pair"} :
           StartWith(StackCall(ts, v, [k \in 1..N |-> TRUE], heading))
      \/ \E v \in {"tlist", "selist", "fmtlist"}, b \in [1..N -> BOOLEAN] :
           StartWith(StackCall(ts, v, b, heading))

Init == InitCells \/ InitLabels \/ InitBonus \/ InitText \/ InitDup \/ InitStack

Spec == Init /\ [][Next]_vars

(***************************************************************************)
(* Lists of tables with every overlay given as a list, element k made for  *)
(* table k, or as one string, boolean or None.                             *)
(***************************************************************************)
FoldTables == {TableA, PlainTable(<<"B">>, <<<<-30>>>>)}

\* the overlays given as lists, together
FoldShapes ==
  { {}, {"tdf"}, {"sedf"}, {"conf_ints"}, {"float_fmt"}, {"sedf", "bonus_stats"},
    {"math_delimiters"},
    {"tdf", "sedf", "conf_ints", "float_fmt", "bonus_stats", "math_delimiters"} }

FoldBonus(v) ==
  [kind |-> "frame", rows |-> <<[found |-> TRUE, vals |-> <<NatText(v)>>]>>]

\* lists is the set of overlays given as lists; element k of each is one of
\* two values, picked by b[k]; the others are None, but for tdf (None or
\* False), float_fmt (a string) and math_delimiters (a boolean)
FoldCall(ts, lists, b, tdfFalse, heading) ==
  LET N == Len(ts)
  IN [df |-> List(ts),
      tdf |-> IF "tdf" \in lists
                THEN List([k \in 1..N |->
                            GridOf(ConstGrid(ts[k], IF b[k] THEN 1961 ELSE 1000))])
                ELSE Scalar(IF tdfFalse THEN TdfFalse ELSE TdfNone),
      sedf |-> IF "sedf" \in lists
                 THEN List([k \in 1..N |->
                             GridOf(ConstGrid(ts[k], IF b[k] THEN 10 ELSE 15))])
                 ELSE Scalar(SedfNone),
      conf_ints |-> IF "conf_ints" \in lists
                      THEN List([k \in 1..N |->
                                  IF b[k] THEN PairOf(ConstGrid(ts[k], 8), ConstGrid(ts[k], 12))
                                  ELSE PairOf(ConstGrid(ts[k], 5), ConstGrid(ts[k], 15))])
                      ELSE Scalar(ConfNone),
      float_fmt |-> IF "float_fmt" \in lists
                      THEN List([k \in 1..N |-> IF b[k] THEN 1 ELSE 2])
                      ELSE Scalar(IF tdfFalse THEN 1 ELSE 2),
      bonus_stats |-> IF "bonus_stats" \in lists
                        THEN List([k \in 1..N |-> FoldBonus(IF b[k] THEN 1 ELSE 2)])
                        ELSE Scalar(BonusNone),
      math_delimiters |-> IF "math_delimiters" \in lists
                            THEN List([k \in 1..N |-> b[k]])
                            ELSE Scalar(tdfFalse),
      print_heading |-> heading]

InitFold ==
  \E N \in 0..MaxTables, lists \in FoldShapes, tdfFalse \in BOOLEAN, heading \in BOOLEAN :
    \E ts \in [1..N -> FoldTables], b \in [1..N -> BOOLEAN] :
      StartWith(FoldCall(ts, lists, b, tdfFalse, heading))

NextFold == Empty \/ Stack

SpecFold == InitFold /\ [][NextFold]_vars

(***************************************************************************)
(* Tables of several rows of one column, each row with its own point       *)
(* estimate and standard error, under every combination of overlays, with  *)
(* and without a frame of bonus statistics.                                *)
(***************************************************************************)
RowPts == {18, -30, Null}
RowSes == {10, 15, Null}

\* one bonus value per row, the row's number
RowBonus(R) ==
  [kind |-> "frame", rows |-> [r \in 1..R |-> [found |-> TRUE, vals |-> <<NatText(r)>>]]]

RowsCall(pts, ses, tk, sk, ck, withBonus, heading) ==
  LET R == Len(pts)
      t == PlainTable(<<"A">>, [r \in 1..R |-> <<pts[r]>>])
  IN [df |-> Scalar(t),
      tdf |-> Scalar(IF tk = "grid" THEN GridOf(ConstGrid(t, 1961))
                     ELSE IF tk = "false" THEN TdfFalse ELSE TdfNone),
      sedf |-> Scalar(IF sk = "grid"
                        THEN GridOf(KeyGrid(t, [r \in 1..R |-> <<ses[r]>>]))
                        ELSE SedfNone),
      conf_ints |-> Scalar(IF ck = "pair"
                             THEN PairOf(ConstGrid(t, 8), ConstGrid(t, 12))
                             ELSE ConfNone),
      float_fmt |-> Scalar(1),
      bonus_stats |-> Scalar(IF withBonus THEN RowBonus(R) ELSE BonusNone),
      math_delimiters |-> Scalar(FALSE),
      print_heading |-> heading]

InitRows ==
  \E R \in 1..MaxRows, tk \in {"none", "false", "grid"}, sk \in {"none", "grid"},
     ck \in {"none", "pair"}, withBonus \in BOOLEAN, heading \in BOOLEAN :
    \E pts \in [1..R -> RowPts], ses \in [1..R -> RowSes] :
      StartWith(RowsCall(pts, ses, tk, sk, ck, withBonus, heading))

NextRows == Single

SpecRows == InitRows /\ [][NextRows]_vars

(***************************************************************************)
(* The star thresholds, swept: one cell with point estimate 1.8 and the    *)
(* t-statistic tprobe / 1000, encoded in the three modes that print stars. *)
(***************************************************************************)
StarArgs(t, se, ci) ==
  [tdf |-> GridOf(ConstGrid(TableA, t)),
   sedf |-> IF se THEN GridOf(ConstGrid(TableA, 10)) ELSE SedfNone,
   conf_ints |-> IF ci THEN PairOf(ConstGrid(TableA, 8), ConstGrid(TableA, 12))
                 ELSE ConfNone,
   float_fmt |-> 1, bonus_stats |-> BonusNone, math_delimiters |-> FALSE,
   print_heading |-> FALSE]

ApplyStars ==
  /\ pc = "stars"
  /\ pc' = "starred"
  /\ tstars' = [t |-> EncodeText(TableA, StarArgs(tprobe, FALSE, FALSE)),
                se |-> EncodeText(TableA, StarArgs(tprobe, TRUE, FALSE)),
                ci |-> EncodeText(TableA, StarArgs(tprobe, FALSE, TRUE))]
  /\ UNCHANGED <<df, tdf, sedf, conf_ints, float_fmt, bonus_stats, math_delimiters,
                 print_heading, s, exc, orig, blocks, tprobe, warnings, dcall, frame, ioVars>>

InitStars ==
  /\ tprobe \in (0 - MaxT)..MaxT
  /\ pc = "stars"
  /\ tstars = <<>>
  /\ df = Scalar(TableA)
  /\ tdf = Scalar(TdfNone)
  /\ sedf = Scalar(SedfNone)
  /\ conf_ints = Scalar(ConfNone)
  /\ float_fmt = Scalar(1)
  /\ bonus_stats = Scalar(BonusNone)
  /\ math_delimiters = Scalar(FALSE)
  /\ print_heading = FALSE
  /\ s = <<>>
  /\ exc = "none"
  /\ warnings = <<>>
  /\ dcall = <<>>
  /\ frame = <<>>
  /\ IOIdle
  /\ orig = <<>>
  /\ blocks = <<>>

NextStars == ApplyStars

SpecStars == InitStars /\ [][NextStars]_vars

(***************************************************************************)
(* Reading org-table text: its lines, and the trimmed cells of a row.      *)
(***************************************************************************)
RECURSIVE SplitOn(_, _)
\* the pieces of text between the occurrences of character ch
SplitOn(text, ch) ==
  IF \A k \in 1..Len(text) : text[k] # ch THEN <<text>>
  ELSE LET p == CHOOSE k \in 1..Len(text) :
                  text[k] = ch /\ \A m \in 1..(k - 1) : text[m] # ch
       IN <<SubSeq(text, 1, p - 1)>> \o SplitOn(SubSeq(text, p + 1, Len(text)), ch)

RECURSIVE TrimLeft(_)
TrimLeft(text) ==
  IF Len(text) > 0 /\ text[1] = " " THEN TrimLeft(Tail(text)) ELSE text

RECURSIVE TrimRight(_)
TrimRight(text) ==
  IF Len(text) > 0 /\ text[Len(text)] = " "
    THEN TrimRight(SubSeq(text, 1, Len(text) - 1)) ELSE text

Trim(text) == TrimRight(TrimLeft(text))

\* the lines of a newline-terminated text
LinesOf(text) ==
  LET parts == SplitOn(text, "\n") IN SubSeq(parts, 1, Len(parts) - 1)

\* the cells of the row "| c1 | c2 |"
RowCells(line) ==
  LET parts == SplitOn(line, "|")
  IN [k \in 1..(Len(parts) - 2) |-> Trim(parts[k + 1])]

RuleRow == <<"|", "-">>
Dashes == <<"-", "-", "-">>

(***************************************************************************)
(* orgtbl_to_df.  A table is a list of rows of cell texts.  The DataFrame  *)
(* returned is [columns, data, index_names, index]: the column names, the  *)
(* rows of cells under them, the names of the row index (none for the      *)
(* default positional index) and each row's index key.                     *)
(***************************************************************************)
MaxTableRows == 3
MaxHeader == 2

\* str(x) of a tuple of strings: "('a', 'b')", and "('a',)" for one element
StrTuple(cells) ==
  <<"(">> \o Join(<<",", " ">>, [k \in 1..Len(cells) |-> <<"'">> \o cells[k] \o <<"'">>])
    \o (IF Len(cells) = 1 THEN <<",">> ELSE <<>>) \o <<")">>

RECURSIVE Fill(_, _)
\* format_string % args, every conversion a %s: the text, or not ok when the
\* conversions and the arguments differ in number (TypeError)
Fill(tpl, args) ==
  IF tpl = <<>> THEN [ok |-> args = <<>>, text |-> <<>>]
  ELSE IF Len(tpl) >= 2 /\ tpl[1] = "%" /\ tpl[2] = "s"
    THEN IF args = <<>> THEN [ok |-> FALSE, text |-> <<>>]
         ELSE LET rest == Fill(SubSeq(tpl, 3, Len(tpl)), Tail(args))
              IN [ok |-> rest.ok, text |-> Head(args) \o rest.text]
  ELSE LET rest == Fill(Tail(tpl), args)
       IN [ok |-> rest.ok, text |-> <<tpl[1]>> \o rest.text]

\* table[:n]
Take(table, n) == SubSeq(table, 1, IF n < Len(table) THEN n ELSE Len(table))

\* the last header row kept among the data rows
DropFrom(table, n) == SubSeq(table, n, Len(table))

\* table[n:]
Drop(table, n) == SubSeq(table, n + 1, Len(table))

\* the cells of column c listed from the last header row up
ColTupleReversed(colnames, c) == [k \in 1..Len(colnames) |-> colnames[Len(colnames) + 1 - k][c]]

\* line 372: tuple([x[colnum] for x in colnames])
ColTuple(colnames, c) == [k \in 1..Len(colnames) |-> colnames[k][c]]

\* lines 364-376: the name of column c
ColName(colnames, h, fmt, c) ==
  IF h = 1
    THEN IF fmt # <<>> THEN Fill(fmt, <<colnames[1][c]>>)
                       ELSE [ok |-> TRUE, text |-> colnames[1][c]]
    ELSE IF fmt # <<>> THEN Fill(fmt, ColTuple(colnames, c))
                       ELSE [ok |-> TRUE, text |-> StrTuple(ColTuple(colnames, c))]

new_colnames(table, h, fmt) ==
  [c \in 1..Len(Take(table, h)[1]) |-> ColName(Take(table, h), h, fmt, c).text]

\* pd.DataFrame(rows, columns=names): default positional index
DataFrame(rows, names) ==
  [columns |-> names, data |-> rows, index_names |-> <<>>,
   index |-> [r \in 1..Len(rows) |-> <<r - 1>>]]

\* the integer k as a column name: tagged, so that it differs from any text
Positional(k) == <<"#">> \o NatText(k)

\* pd.DataFrame(rows): positional column names as well
PositionalFrame(rows) ==
  DataFrame(rows, IF rows = <<>> THEN <<>>
                  ELSE [c \in 1..Len(rows[1]) |-> Positional(c - 1)])

\* the position of column name n
PosOf(names, n) == CHOOSE c \in 1..Len(names) : names[c] = n

\* the positions of the columns that are not among keys, in order
KeptPositions(names, keys) ==
  SelectSeq([c \in 1..Len(names) |-> c],
            LAMBDA c : \A k \in 1..Len(keys) : keys[k] # names[c])

\* df.set_index(index): the named columns become the row index, in the
\* order asked for, and leave the columns
set_index(f, keys) ==
  LET kept == KeptPositions(f.columns, keys)
  IN [columns |-> [n \in 1..Len(kept) |-> f.columns[kept[n]]],
      data |-> [r \in 1..Len(f.data) |-> [n \in 1..Len(kept) |-> f.data[r][kept[n]]]],
      index_names |-> keys,
      index |-> [r \in 1..Len(f.data) |->
                  [k \in 1..Len(keys) |-> f.data[r][PosOf(f.columns, keys[k])]]]]

\* a requested index is [kind, names]: nothing, one name, or a list of names
IndexNone == [kind |-> "none", names |-> <<>>]
IndexName(n) == [kind |-> "name", names |-> <<n>>]
IndexList(ns) == [kind |-> "list", names |-> ns]

\* "if index:" -- None, "" and [] do not count as a request
Truthy(index) ==
  /\ index.kind # "none"
  /\ index.kind = "name" => index.names[1] # <<>>
  /\ index.kind = "list" => index.names # <<>>

\* the exception set_index raises: KeyError for a name that is no column,
\* ValueError for a name that several columns carry
set_index_exc(f, keys) ==
  IF \E k \in 1..Len(keys) : \A c \in 1..Len(f.columns) : f.columns[c] # keys[k]
    THEN "KeyError"
  ELSE IF \E k \in 1..Len(keys) : \E c, d \in 1..Len(f.columns) :
            c # d /\ f.columns[c] = keys[k] /\ f.columns[d] = keys[k]
    THEN "ValueError"
  ELSE "none"

\* the exception orgtbl_to_df raises, or "none"
orgtbl_to_df_exc(c) ==
  IF c.col_name_size = 0 THEN "none"
  ELSE IF c.table = <<>> THEN "IndexError"
  ELSE IF \E n \in 1..Len(c.table[1]) :
            ~ColName(Take(c.table, c.col_name_size), c.col_name_size, c.format_string, n).ok
    THEN "TypeError"
  ELSE IF Truthy(c.index)
    THEN set_index_exc(DataFrame(Drop(c.table, c.col_name_size),
                                 new_colnames(c.table, c.col_name_size, c.format_string)),
                       c.index.names)
  ELSE "none"

\* lines 359-383: the DataFrame orgtbl_to_df returns
orgtbl_to_df(c) ==
  IF c.col_name_size = 0 THEN PositionalFrame(c.table)
  ELSE LET f == DataFrame(Drop(c.table, c.col_name_size),
                          new_colnames(c.table, c.col_name_size, c.format_string))
       IN IF Truthy(c.index) THEN set_index(f, c.index.names) ELSE f

\* one call of orgtbl_to_df
Decode ==
  /\ pc = "decode"
  /\ LET e == orgtbl_to_df_exc(dcall)
     IN /\ exc' = e
        /\ pc' = IF e = "none" THEN "decoded" ELSE "raised"
        /\ frame' = IF e = "none" THEN orgtbl_to_df(dcall) ELSE frame
  /\ UNCHANGED <<df, tdf, sedf, conf_ints, float_fmt, bonus_stats, math_delimiters,
                 print_heading, s, orig, blocks, tprobe, tstars, warnings, dcall, ioVars>>

\* the encoder's variables while only the decoder runs
EncoderIdle ==
  /\ df = Scalar(TableA)
  /\ tdf = Scalar(TdfNone)
  /\ sedf = Scalar(SedfNone)
  /\ conf_ints = Scalar(ConfNone)
  /\ float_fmt = Scalar(1)
  /\ bonus_stats = Scalar(BonusNone)
  /\ math_delimiters = Scalar(FALSE)
  /\ print_heading = FALSE
  /\ s = <<>>
  /\ exc = "none"
  /\ warnings = <<>>
  /\ orig = <<>>
  /\ blocks = <<>>
  /\ tprobe = 0
  /\ tstars = <<>>

\* the tables, templates and index requests orgtbl_to_df is called with
CellTexts == {<<>>, <<"a">>}
Widths == {1, 2, 3}
Templates == {<<>>, <<"c", "%", "s">>, <<"%", "s", ".", "%", "s">>}
DecodeTables ==
  UNION {[1..N -> [1..W -> CellTexts]] : N \in 0..MaxTableRows, W \in Widths}

\* the column names of the frame built from the table
ProducedNames(table, h, fmt) ==
  IF table = <<>> THEN {}
  ELSE IF h = 0 THEN {Positional(0), Positional(1)}
  ELSE {new_colnames(table, h, fmt)[c] : c \in 1..Len(table[1])}

\* names an index request may hold: the names produced, the string form of
\* the first row and a name no column carries
RequestNames(table, h, fmt) ==
  {<<"z">>} \cup ProducedNames(table, h, fmt)
    \cup (IF table = <<>> THEN {} ELSE {StrTuple(table[1])})

IndexRequests(table, h, fmt) ==
  {IndexNone, IndexList(<<>>)}
    \cup {IndexName(n) : n \in RequestNames(table, h, fmt)}
    \cup {IndexList(<<n>>) : n \in RequestNames(table, h, fmt)}
    \cup {IndexList(q) :
            q \in {p \in ProducedNames(table, h, fmt) \X ProducedNames(table, h, fmt) :
                     p[1] # p[2]}}

DecodeCall(table, h, fmt, index) ==
  [table |-> table, col_name_size |-> h, format_string |-> fmt, index |-> index]

InitDecode ==
  /\ EncoderIdle
  /\ pc = "decode"
  /\ frame = <<>>
  /\ IOIdle
  /\ \E table \in DecodeTables, h \in 0..MaxHeader, fmt \in Templates :
       \E index \in IndexRequests(table, h, fmt) :
         dcall = DecodeCall(table, h, fmt, index)

NextDecode == Decode

SpecDecode == InitDecode /\ [][NextDecode]_vars

(***************************************************************************)
(* The round trip: a table is encoded without overlays, the text is cut    *)
(* into rows of trimmed cells with the rule rows left out, and the rows    *)
(* are given to orgtbl_to_df with one header row.                          *)
(***************************************************************************)
\* the rows of cells of org-table text
Tokens(text) ==
  LET rows == SelectSeq(LinesOf(text), LAMBDA line : line # RuleRow)
  IN [n \in 1..Len(rows) |-> RowCells(rows[n])]

Tokenize ==
  /\ pc = "done"
  /\ pc' = "decode"
  /\ dcall' = DecodeCall(Tokens(s), 1, <<>>, IndexNone)
  /\ UNCHANGED <<df, tdf, sedf, conf_ints, float_fmt, bonus_stats, math_delimiters,
                 print_heading, s, exc, orig, blocks, tprobe, tstars, warnings, frame, ioVars>>

RoundVals == {18, Null}

RoundCall(t, fmt, math) ==
  [df |-> Scalar(t), tdf |-> Scalar(TdfNone), sedf |-> Scalar(SedfNone),
   conf_ints |-> Scalar(ConfNone), float_fmt |-> Scalar(fmt),
   bonus_stats |-> Scalar(BonusNone), math_delimiters |-> Scalar(math),
   print_heading |-> TRUE]

\* a table of numbers and missing values under a plain index, or a table
\* with a two-level named index; one level of column labels in both
InitRound ==
  \E fmt \in FmtPrecs, math \in BOOLEAN :
    \/ \E R \in 1..MaxRows, C \in 1..MaxCols :
         \E cells \in [1..R -> [1..C -> RoundVals]] :
           StartWith(RoundCall(PlainTable([c \in 1..C |-> ColLabel(c)], cells), fmt, math))
    \/ \E idx \in DistinctSeqs(KeysOf(RowLabs, 2), MaxRows) :
         StartWith(RoundCall(LabelTable(idx, <<<<<<"A">>>>>>), fmt, math))

NextRound == Single \/ Tokenize \/ Decode

SpecRound == InitRound /\ [][NextRound]_vars

(***************************************************************************)
(* get_dataframe.  The caller's fn is a path or a stream; a stream has a   *)
(* seek method or not and reports itself seekable or not.  The state of a  *)
(* call is the record gdf:                                                 *)
(*   fn, sheet   the caller's arguments                                    *)
(*   pgp, gpg    whether the content looks like PGP data, and what gpg     *)
(*               does with it ("ok", "failed", "missing")                  *)
(*   pass        1 inside "with open(fn)" (line 600), 2 at line 602        *)
(*   stream      what read_file's stream is: "path", "handle" (the file    *)
(*               get_dataframe opened), "caller" (the caller's stream),    *)
(*               "buffer" (the copy of line 513), "decrypted" (gpg output) *)
(*   pos         the offset stream is at                                   *)
(*   next        the place in Readers of the reader to try next            *)
(*   calls       the readers invoked: [reader, pass, stream, pos, sheet,   *)
(*               outcome], outcome being "ok", "tolerated" (an error    *)
(*               the reader's except clause names) or "other"           *)
(*   copies      the copies made of the caller's stream                    *)
(*   seeks       the seek calls made on the caller's stream                *)
(*   result      the reader whose frame is returned, or "none"             *)
(***************************************************************************)
MaxSize == 2

FnKinds == {"path", "seekable", "nonseekable", "noseek"}
Sheets == {"None", "sheety"}

\* lines 554-593: the readers in the order read_file tries them
Readers == <<"spss", "parquet", "stata", "csv", "excel", "feather", "fwf">>

\* the exception classes a reader raises
Errors ==
  {"ParserError", "UnicodeDecodeError", "ValueError", "ImportError", "ArrowInvalid",
   "TypeError", "OSError"}

\* pd.errors.ParserError, UnicodeDecodeError and pyarrow's ArrowInvalid are
\* subclasses of ValueError
IsValueError(e) == e \in {"ValueError", "ParserError", "UnicodeDecodeError", "ArrowInvalid"}

\* the except clause after each reader (lines 557, 562, 568, 574, 580, 586, 592)
Tolerated(reader) ==
  CASE reader = "spss" -> {"ParserError", "UnicodeDecodeError", "ValueError", "ImportError"}
    [] reader = "parquet" -> {"ArrowInvalid", "ImportError"}
    [] reader = "stata" -> {"ValueError"}
    [] reader = "csv" -> {"ParserError", "UnicodeDecodeError"}
    [] reader = "excel" -> {"ParserError", "UnicodeDecodeError", "ValueError"}
    [] reader = "feather" -> {"ParserError", "UnicodeDecodeError", "ArrowInvalid", "ImportError"}
    [] reader = "fwf" -> {"ParserError", "UnicodeDecodeError"}

\* "except classes" catches e
Caught(classes, e) == e \in classes \/ ("ValueError" \in classes /\ IsValueError(e))

\* line 601: except (TypeError, ValueError)
OuterCaught(e) == Caught({"TypeError", "ValueError"}, e)

\* the reset() before the Stata reader left out
ResetsAfterStata(reader) == reader \notin {"spss", "parquet", "stata"}

\* reset() comes before every reader from Stata on (lines 566-590)
Resets(reader) == reader \notin {"spss", "parquet"}

\* read_excel called without the caller's sheet
SheetArgDefault(reader, sheet) == IF reader = "excel" THEN "None" ELSE "n/a"

\* the sheet_name the reader is given (line 579), "n/a" for a reader without one
SheetArg(reader, sheet) == IF reader = "excel" THEN sheet ELSE "n/a"

\* line 512: the stream is copied into memory
Buffered(kind) == kind \in {"nonseekable", "noseek"}

\* lines 598-602: open(fn) gives a handle for a path and raises TypeError for
\* anything else, which sends the call to line 602
get_dataframe ==
  /\ pc = "get_dataframe"
  /\ pc' = "read_file"
  /\ gdf' = [gdf EXCEPT !.pass = IF gdf.fn = "path" THEN 1 ELSE 2]
  /\ UNCHANGED <<df, tdf, sedf, conf_ints, float_fmt, bonus_stats, math_delimiters,
                 print_heading, s, exc, orig, blocks, tprobe, tstars, warnings,
                 dcall, frame, msg, mail>>

\* the seek calls lines 515, 532, 491 and 546 make on read_file's stream
PrepareSeeks(g) ==
  1 + 1 + (IF g.pgp /\ g.gpg = "failed" THEN 2
           ELSE IF g.pgp /\ g.gpg = "missing" THEN 1 ELSE 0)

\* lines 510-552: read_file up to its first reader
read_file ==
  /\ pc = "read_file"
  /\ LET f == IF gdf.pass = 1 THEN "handle"
              ELSE IF gdf.fn = "path" THEN "path" ELSE "caller"
         copied == f = "caller" /\ Buffered(gdf.fn)
         st == IF copied THEN "buffer" ELSE f
         decrypted == gdf.pgp /\ gdf.gpg = "ok"
     IN gdf' = [gdf EXCEPT
                  !.stream = IF decrypted THEN "decrypted" ELSE st,
                  !.pos = 0,
                  !.copies = IF copied THEN @ + 1 ELSE @,
                  !.seeks = IF st = "caller" THEN @ + PrepareSeeks(gdf) ELSE @,
                  !.next = IF ~decrypted /\ st = "path" THEN 1 ELSE 2]
  /\ pc' = "readers"
  /\ UNCHANGED <<df, tdf, sedf, conf_ints, float_fmt, bonus_stats, math_delimiters,
                 print_heading, s, exc, orig, blocks, tprobe, tstars, warnings,
                 dcall, frame, msg, mail>>

\* the state after reader has raised e
AfterError(g, reader, e) ==
  IF Caught(Tolerated(reader), e)
    THEN IF g.next < Len(Readers)
           THEN [p |-> "readers", e |-> "none", g |-> [g EXCEPT !.next = @ + 1]]
           \* line 596
           ELSE IF g.pass = 1
             THEN [p |-> "read_file", e |-> "none", g |-> [g EXCEPT !.pass = 2]]
             ELSE [p |-> "raised", e |-> "ValueError", g |-> g]
    ELSE IF g.pass = 1 /\ OuterCaught(e)
      THEN [p |-> "read_file", e |-> "none", g |-> [g EXCEPT !.pass = 2]]
      ELSE [p |-> "raised", e |-> e, g |-> g]

\* one of the try blocks of lines 554-593: the reader is given the stream,
\* reads some of it, and returns a frame or raises
try_reader ==
  /\ pc = "readers"
  /\ LET reader == Readers[gdf.next]
         onCaller == gdf.stream = "caller" /\ Resets(reader)
         start == IF Resets(reader) THEN 0 ELSE gdf.pos
     IN \E after \in 0..MaxSize, outcome \in {"ok"} \cup Errors :
          LET call == [reader |-> reader, pass |-> gdf.pass, stream |-> gdf.stream,
                       pos |-> start, sheet |-> SheetArg(reader, gdf.sheet),
                       outcome |-> IF outcome = "ok" THEN "ok"
                                   ELSE IF Caught(Tolerated(reader), outcome)
                                     THEN "tolerated" ELSE "other"]
              g == [gdf EXCEPT !.calls = Append(@, call),
                               !.seeks = IF onCaller THEN @ + 1 ELSE @,
                               !.pos = IF gdf.stream = "path" THEN 0 ELSE after]
          IN IF outcome = "ok"
               THEN /\ gdf' = [g EXCEPT !.result = reader]
                    /\ pc' = "done"
                    /\ exc' = "none"
               ELSE /\ gdf' = AfterError(g, reader, outcome).g
                    /\ pc' = AfterError(g, reader, outcome).p
                    /\ exc' = AfterError(g, reader, outcome).e
  /\ UNCHANGED <<df, tdf, sedf, conf_ints, float_fmt, bonus_stats, math_delimiters,
                 print_heading, s, orig, blocks, tprobe, tstars, warnings,
                 dcall, frame, msg, mail>>

GdfCall(kind, sheet, pgp, gpg) ==
  [fn |-> kind, sheet |-> sheet, pgp |-> pgp, gpg |-> gpg, pass |-> 0,
   stream |-> "none", pos |-> 0, next |-> 0, calls |-> <<>>, copies |-> 0,
   seeks |-> 0, result |-> "none"]

InitGdf ==
  /\ EncoderIdle
  /\ dcall = <<>>
  /\ frame = <<>>
  /\ msg = <<>>
  /\ mail = <<>>
  /\ pc = "get_dataframe"
  /\ \E kind \in FnKinds, sheet \in Sheets, pgp \in BOOLEAN,
        gpg \in {"ok", "failed", "missing"} :
       gdf = GdfCall(kind, sheet, pgp, gpg)

NextGdf == get_dataframe \/ read_file \/ try_reader

SpecGdf == InitGdf /\ [][NextGdf]_vars

(***************************************************************************)
(* email_from_ligon.py: _compose_message.  An HTML body is the sequence of *)
(* the tags HTMLParser reports from it, each [kind, tag] with kind "start" *)
(* (<b>), "end" (</b>) or "startend" (<b/>); its text is of no account to  *)
(* the validator.  An address is given as text and parsed by parseaddr.    *)
(***************************************************************************)
MaxTags == 4

\* lines 27-42: br stands for the void tags, b and p for the others
_VOID_TAGS == {"br"}
Tags == {"b", "p", "br"}

\* the tags an HTML body is drawn from
TagEvents ==
  {[kind |-> "start", tag |-> "b"], [kind |-> "end", tag |-> "b"],
   [kind |-> "start", tag |-> "p"], [kind |-> "end", tag |-> "p"],
   [kind |-> "start", tag |-> "br"], [kind |-> "end", tag |-> "br"],
   [kind |-> "startend", tag |-> "b"], [kind |-> "startend", tag |-> "br"]}

\* lines 48-51
NewValidator == [stack |-> <<>>, errors |-> 0]

\* every tag pushed, the void ones too
handle_starttag_all(p, tag) == [p EXCEPT !.stack = Append(@, tag)]

\* lines 53-55
handle_starttag(p, tag) ==
  IF tag \notin _VOID_TAGS THEN [p EXCEPT !.stack = Append(@, tag)] ELSE p

\* lines 57-59
handle_startendtag(p, tag) == p

\* lines 61-67
handle_endtag(p, tag) ==
  IF tag \in _VOID_TAGS THEN p
  ELSE IF p.stack = <<>> \/ p.stack[Len(p.stack)] # tag
    THEN [p EXCEPT !.errors = @ + 1]
  ELSE [p EXCEPT !.stack = SubSeq(@, 1, Len(@) - 1)]

RECURSIVE feed(_, _)
\* line 72: HTMLParser.feed calls the handler of each tag in turn
feed(p, events) ==
  IF events = <<>> THEN p
  ELSE feed(CASE events[1].kind = "start" -> handle_starttag(p, events[1].tag)
              [] events[1].kind = "startend" -> handle_startendtag(p, events[1].tag)
              [] events[1].kind = "end" -> handle_endtag(p, events[1].tag),
            Tail(events))

\* lines 70-76: the exception _validate_html_body raises, or "none"
_validate_html_body(html_body) ==
  LET parser == feed(NewValidator, html_body)
      errors == parser.errors + (IF parser.stack # <<>> THEN 1 ELSE 0)
  IN IF errors > 0 THEN "ValueError" ELSE "none"

\* email.utils.parseaddr on the addresses of the model: <<name, addr_spec>>
parseaddr(raw) ==
  CASE raw = "to@example.com" -> <<"", "to@example.com">>
    [] raw = "from@example.com" -> <<"", "from@example.com">>
    [] raw = "Name <user@example.com>" -> <<"Name", "user@example.com">>
    [] OTHER -> <<"", "">>

\* lines 85-90: the exception _format_addresses raises, or "none"
_format_addresses_exc(addresses) ==
  IF \E k \in 1..Len(addresses) : parseaddr(addresses[k])[2] = ""
    THEN "ValueError" ELSE "none"

\* lines 84-90: the Address of each address, in order (the header joins
\* their string forms with ", ")
_format_addresses(addresses) ==
  [k \in 1..Len(addresses) |->
     [display_name |-> parseaddr(addresses[k])[1],
      addr_spec |-> parseaddr(addresses[k])[2]]]

\* lines 23-24, the body a text of characters
is_html(body) == body # <<>> /\ TrimLeft(body) # <<>> /\ TrimLeft(body)[1] = "<"

\* html_body: None, or the tags of the text given
NoHtml == [given |-> FALSE, tags |-> <<>>]
Html(tags) == [given |-> TRUE, tags |-> tags]

\* lines 153-166: the exception _compose_message raises, or "none"
_compose_message_exc(to, content, from_email) ==
  IF content.html_body.given /\ _validate_html_body(content.html_body.tags) # "none"
    THEN _validate_html_body(content.html_body.tags)
  ELSE FirstExc(<<_format_addresses_exc(<<from_email>>), _format_addresses_exc(<<to>>),
                  IF content.cc # <<>> THEN _format_addresses_exc(content.cc) ELSE "none">>)

\* lines 153-168: the message _compose_message returns
_compose_message(to, content, from_email) ==
  [type |-> IF content.html_body.given THEN "multipart/alternative"
            ELSE IF is_html(content.body) THEN "text/html" ELSE "text/plain",
   parts |-> IF content.html_body.given
               THEN <<[type |-> "text/plain", payload |-> content.body],
                      [type |-> "text/html", payload |-> content.html_body.tags]>>
               ELSE <<>>,
   payload |-> IF content.html_body.given THEN <<>> ELSE content.body,
   Subject |-> content.subject,
   From |-> _format_addresses(<<from_email>>),
   To |-> _format_addresses(<<to>>),
   Cc |-> IF content.cc # <<>> THEN _format_addresses(content.cc) ELSE <<>>]

\* lines 16-20
EmailContent(subject, body, cc, html_body) ==
  [subject |-> subject, body |-> body, cc |-> cc, html_body |-> html_body]

\* one call of _compose_message; msg is [to, content, from_email, message]
Compose ==
  /\ pc = "compose"
  /\ LET e == _compose_message_exc(msg.to, msg.content, msg.from_email)
     IN /\ exc' = e
        /\ pc' = IF e = "none" THEN "composed" ELSE "raised"
        /\ msg' = IF e = "none"
                    THEN [msg EXCEPT !.message =
                            _compose_message(msg.to, msg.content, msg.from_email)]
                    ELSE msg
  /\ UNCHANGED <<df, tdf, sedf, conf_ints, float_fmt, bonus_stats, math_delimiters,
                 print_heading, s, orig, blocks, tprobe, tstars, warnings,
                 dcall, frame, gdf, mail>>

\* the HTML bodies of at most n tags
HtmlBodies(n) == UNION {[1..k -> TagEvents] : k \in 0..n}

Bodies == {<<>>, <<"h", "i">>, <<" ", "<", "p", ">">>}
ToAddresses == {"to@example.com", "Name <user@example.com>", ""}
CcLists == {<<>>, <<"to@example.com">>, <<"to@example.com", "">>}

ComposeCall(to, content, from_email) ==
  [to |-> to, content |-> content, from_email |-> from_email, message |-> <<>>]

\* every HTML body between good addresses; and a few bodies, with or
\* without HTML, between addresses good and bad
InitCompose ==
  /\ EncoderIdle
  /\ dcall = <<>>
  /\ frame = <<>>
  /\ gdf = <<>>
  /\ mail = <<>>
  /\ pc = "compose"
  /\ \/ \E html \in HtmlBodies(MaxTags) :
          msg = ComposeCall("to@example.com",
                            EmailContent("Subj", <<"h", "i">>, <<>>, Html(html)),
                            "from@example.com")
     \/ \E html \in {NoHtml} \cup {Html(h) : h \in HtmlBodies(1)}, body \in Bodies,
           to \in ToAddresses, cc \in CcLists, from_email \in {"from@example.com", ""} :
          msg = ComposeCall(to, EmailContent("Subj", body, cc, html), from_email)

NextCompose == Compose

SpecCompose == InitCompose /\ [][NextCompose]_vars

(***************************************************************************)
(* email_from_ligon.  The state of a call is the record mail:              *)
(*   env      the value of LIGONLIBRARY_EMAIL_CREDENTIALS, or Unset        *)
(*   exists   the paths that exist                                         *)
(*   emails   the items of the emails dict, each [to, value]               *)
(*   credential_path  what _resolve_credentials_path returned              *)
(*   next     the place in emails of the item the loop takes next          *)
(*   sends    the calls of service.users().messages().send(...).execute(), *)
(*            each [userId, to, outcome]                                   *)
(***************************************************************************)
MaxEmails == 2

Unset == "<unset>"
HomeDefault == "/home/u/.ligonlibrary/email_secret.json"
Legacy == ".credentials/email_secret.json"

\* Path(env_path).expanduser(), the home directory being /home/u
expanduser(path) == IF path = "~/creds.json" THEN "/home/u/creds.json" ELSE path

\* the home directory looked at after the working directory
DefaultCandidatesLegacyFirst == <<Legacy, HomeDefault>>

\* the default locations looked at after the environment's
DefaultCandidates == <<HomeDefault, Legacy>>

\* lines 126-143: the paths in the order they are looked at
Candidates(env) ==
  (IF env # Unset /\ env # "" THEN <<expanduser(env)>> ELSE <<>>) \o DefaultCandidates

\* lines 128-148: the path returned, or NoPath when FileNotFoundError is raised
NoPath == "<none>"
_resolve_credentials_path(env, exists) ==
  LET cs == Candidates(env)
  IN IF \E k \in 1..Len(cs) : cs[k] \in exists
       THEN cs[CHOOSE k \in 1..Len(cs) :
                 cs[k] \in exists /\ \A j \in 1..(k - 1) : cs[j] \notin exists]
       ELSE NoPath

\* lines 93-101: cc is [kind, v], kind "None", "str", "tuple" or "int", and
\* v the addresses (of a str, the one address)
_coerce_cc_exc(cc) == IF cc.kind = "int" THEN "TypeError" ELSE "none"
_coerce_cc(cc) ==
  IF cc.kind = "None" THEN <<>> ELSE IF cc.kind = "str" THEN <<cc.v[1]>> ELSE cc.v

\* lines 104-118: value is [kind, items], kind "EmailContent", "tuple" or "list"
_as_email_content_exc(value) ==
  IF value.kind = "EmailContent" THEN "none"
  ELSE IF value.kind = "tuple" /\ Len(value.items) \in {2, 3, 4}
    THEN IF Len(value.items) = 2 THEN "none" ELSE _coerce_cc_exc(value.items[3])
  ELSE "TypeError"

_as_email_content(value) ==
  IF value.kind = "EmailContent"
    THEN EmailContent(value.items[1], value.items[2], value.items[3].v, value.items[4])
  ELSE IF Len(value.items) = 2
    THEN EmailContent(value.items[1], value.items[2], <<>>, NoHtml)
  ELSE IF Len(value.items) = 3
    THEN EmailContent(value.items[1], value.items[2], _coerce_cc(value.items[3]), NoHtml)
  ELSE EmailContent(value.items[1], value.items[2], _coerce_cc(value.items[3]),
                    value.items[4])

\* lines 182-184: the credentials are looked up before anything is sent
Resolve ==
  /\ pc = "email_from_ligon"
  /\ LET path == _resolve_credentials_path(mail.env, mail.exists)
     IN /\ mail' = [mail EXCEPT !.credential_path = path]
        /\ exc' = IF path = NoPath THEN "FileNotFoundError" ELSE "none"
        /\ pc' = IF path = NoPath THEN "raised"
                 ELSE IF mail.emails = <<>> THEN "done" ELSE "sending"
  /\ UNCHANGED <<df, tdf, sedf, conf_ints, float_fmt, bonus_stats, math_delimiters,
                 print_heading, s, orig, blocks, tprobe, tstars, warnings,
                 dcall, frame, gdf, msg>>

\* what execute() does: it returns, or raises googleapiclient's HttpError
\* (status 429 or 500), or requests' HTTPError
SendOutcomes == {"ok", "HttpError 429", "HttpError 500", "HTTPError"}

\* lines 190-200: one turn of the loop over emails.items(); only HTTPError
\* of requests is caught (line 199), and it ends the loop
SendNext ==
  /\ pc = "sending"
  /\ LET item == mail.emails[mail.next]
         e1 == _as_email_content_exc(item.value)
         content == _as_email_content(item.value)
         e2 == IF e1 # "none" THEN e1
               ELSE _compose_message_exc(item.to, content, mail.from_email)
     IN IF e2 # "none"
          THEN /\ exc' = e2
               /\ pc' = "raised"
               /\ UNCHANGED mail
          ELSE \E outcome \in SendOutcomes :
                 /\ mail' = [mail EXCEPT
                               !.sends = Append(@, [userId |-> "me", to |-> item.to,
                                                    outcome |-> outcome]),
                               !.next = @ + 1]
                 /\ exc' = IF outcome \in {"HttpError 429", "HttpError 500"}
                             THEN "HttpError" ELSE "none"
                 /\ pc' = IF outcome \in {"HttpError 429", "HttpError 500"} THEN "raised"
                          ELSE IF outcome = "HTTPError" THEN "done"
                          ELSE IF mail.next < Len(mail.emails) THEN "sending"
                          ELSE "done"
  /\ UNCHANGED <<df, tdf, sedf, conf_ints, float_fmt, bonus_stats, math_delimiters,
                 print_heading, s, orig, blocks, tprobe, tstars, warnings,
                 dcall, frame, gdf, msg>>

\* the environment: the variable unset, empty or naming a path, and the
\* paths that exist
EnvValues == {Unset, "", "/tmp/creds.json", "~/creds.json", HomeDefault}
Paths == {"/tmp/creds.json", "/home/u/creds.json", HomeDefault, Legacy}

Tuple(items) == [kind |-> "tuple", items |-> items]
Cc(kind, v) == [kind |-> kind, v |-> v]

\* the values of the emails dict
EmailValues ==
  { Tuple(<<"Subj", <<"h", "i">>>>),
    Tuple(<<"Subj", <<"h", "i">>, Cc("str", <<"to@example.com">>)>>),
    Tuple(<<"Subj", <<"h", "i">>, Cc("int", <<>>)>>),
    Tuple(<<"Subj", <<"h", "i">>, Cc("None", <<>>),
            Html(<<[kind |-> "start", tag |-> "b"], [kind |-> "end", tag |-> "b"]>>)>>),
    Tuple(<<"Subj", <<"h", "i">>, Cc("tuple", <<>>),
            Html(<<[kind |-> "start", tag |-> "b"]>>)>>),
    Tuple(<<"Subj">>),
    [kind |-> "EmailContent",
     items |-> <<"Subj", <<"h", "i">>, Cc("tuple", <<"to@example.com">>), NoHtml>>] }

MailCall(env, exists, emails) ==
  [env |-> env, exists |-> exists, emails |-> emails, from_email |-> "from@example.com",
   credential_path |-> NoPath, next |-> 1, sends |-> <<>>]

\* the dicts of at most n emails
EmailDicts(n) ==
  UNION {{[k \in 1..m |-> [to |-> tos[k], value |-> vs[k]]] :
            tos \in DistinctSeqs({"to@example.com", "Name <user@example.com>", ""}, m),
            vs \in [1..m -> EmailValues]} : m \in 0..n}

InitMail ==
  /\ EncoderIdle
  /\ dcall = <<>>
  /\ frame = <<>>
  /\ gdf = <<>>
  /\ msg = <<>>
  /\ pc = "email_from_ligon"
  /\ \/ \E env \in EnvValues, exists \in SUBSET Paths :
          mail = MailCall(env, exists,
                          <<[to |-> "to@example.com",
                             value |-> Tuple(<<"Subj", <<"h", "i">>>>)]>>)
     \/ \E emails \in EmailDicts(MaxEmails) : mail = MailCall(Unset, {HomeDefault}, emails)

NextMail == Resolve \/ SendNext

SpecMail == InitMail /\ [][NextMail]_vars

(***************************************************************************)
(* The claims.                                                             *)
(***************************************************************************)
Returned == pc = "done"
SingleCall == Returned /\ ~orig.df.isList
StackCallDone == Returned /\ orig.df.isList

\* the k-th item of the caller's argument x: of a list its k-th element, of
\* anything else the value itself
ItemOf(x, k) == IF x.isList THEN x.items[k] ELSE x.items[1]

\* the overlays the caller supplied for the k-th table
BundleOf(o, k, heading) ==
  [tdf |-> ItemOf(o.tdf, k), sedf |-> ItemOf(o.sedf, k),
   conf_ints |-> ItemOf(o.conf_ints, k), float_fmt |-> ItemOf(o.float_fmt, k),
   bonus_stats |-> ItemOf(o.bonus_stats, k),
   math_delimiters |-> ItemOf(o.math_delimiters, k), print_heading |-> heading]

NTables(o) == Len(o.df.items)
TableOf(o, k) == o.df.items[k]

\* a bonus-stats grid with an entry for every row and at most L values in it
BonusFits(t, b) ==
  b.kind # "none" =>
    \A r \in 1..NRows(t) : b.rows[r].found /\ Len(b.rows[r].vals) <= Levels(t)

\* the call is one the encoder's contract covers: tdf absent, False or a
\* grid, sedf absent or a grid, conf_ints absent or a pair, bonus stats that
\* fit, and for a list of tables no grid shared by all of them
InContract(o) ==
  /\ \A k \in 1..NTables(o) : BonusFits(TableOf(o, k), ItemOf(o.bonus_stats, k))
  /\ o.df.isList => /\ o.tdf.isList \/ o.tdf.items[1].kind # "grid"
                    /\ o.sedf.isList \/ o.sedf.items[1].kind # "grid"

\* C1: df_to_orgtbl never raises for a well-formed table, or list of
\* tables, with any combination of well-shaped overlays.
C1_NeverRaises == InContract(orig) => pc # "raised"

\* C2: after the call the caller's list of tables and every overlay list
\* have the length and elements they had before it.
C2_InputsNotMutated ==
  pc \in {"done", "raised"} =>
    /\ df = orig.df
    /\ tdf = orig.tdf
    /\ sedf = orig.sedf
    /\ conf_ints = orig.conf_ints
    /\ float_fmt = orig.float_fmt
    /\ bonus_stats = orig.bonus_stats
    /\ math_delimiters = orig.math_delimiters

HeadingRule == <<"|", "-", "\n">>

\* the heading flag of the k-th table when later tables are compared with
\* the first one
HeadVsFirst(o, k) ==
  IF k = 1 THEN o.print_heading
  ELSE TableOf(o, k).columns # TableOf(o, 1).columns

\* the heading flag of the k-th table when each table is compared with the
\* one before it
HeadVsPrevious(o, k) ==
  IF k = 1 THEN o.print_heading
  ELSE TableOf(o, k).columns # TableOf(o, k - 1).columns

StackedVsFirst(o) ==
  Join(HeadingRule,
       [k \in 1..NTables(o) |->
          EncodeText(TableOf(o, k), BundleOf(o, k, HeadVsFirst(o, k)))])

StackedVsPrevious(o) ==
  Join(HeadingRule,
       [k \in 1..NTables(o) |->
          EncodeText(TableOf(o, k), BundleOf(o, k, HeadVsPrevious(o, k)))])

\* C3 (as claimed): stacking renders the first table with its heading and a
\* later table with a heading iff its column keys differ from those of the
\* FIRST table; blocks are joined by one rule row.
C3_HeadingVsFirst ==
  StackCallDone /\ orig.print_heading => s = StackedVsFirst(orig)

\* C3 (amended): stacking renders the first table with its heading (when
\* print_heading is set) and a later table with a heading iff its column
\* keys differ from those of the table just before it; blocks are joined by
\* one rule row.
C3_HeadingVsPrevious == StackCallDone => s = StackedVsPrevious(orig)

\* three tables stacked, the third with the columns of the first and not of
\* the second
C3_Witness ==
  /\ StackCallDone
  /\ orig.print_heading
  /\ NTables(orig) = 3
  /\ TableOf(orig, 3).columns = TableOf(orig, 1).columns
  /\ TableOf(orig, 3).columns # TableOf(orig, 2).columns

\* C4: N >= 1 tables with the same column keys, heading enabled, stack to one
\* heading block, then the N data blocks in input order with one rule row
\* between consecutive blocks.
C4_OneHeading ==
  /\ StackCallDone
  /\ NTables(orig) >= 1
  /\ orig.print_heading
  /\ \A k \in 1..NTables(orig) : TableOf(orig, k).columns = TableOf(orig, 1).columns
  => s = column_heading(TableOf(orig, 1))
           \o Join(HeadingRule,
                   [k \in 1..NTables(orig) |->
                      Body(TableOf(orig, k), BundleOf(orig, k, FALSE))])

\* three tables of the same columns and different cells, stacked
C4_Witness ==
  /\ StackCallDone
  /\ orig.print_heading
  /\ NTables(orig) = 3
  /\ \A k \in 1..3 : TableOf(orig, k).columns = TableOf(orig, 1).columns
  /\ TableOf(orig, 1).cells # TableOf(orig, 2).cells
  /\ TableOf(orig, 2).cells # TableOf(orig, 3).cells

\* the star count the thresholds 1.65, 1.96, 2.577 give |t| = a / 1000
ExpectedStars(a) ==
  IF a <= 1650 THEN 0 ELSE IF a <= 1960 THEN 1 ELSE IF a <= 2577 THEN 2 ELSE 3

StarSuffix(n) ==
  IF n = 0 THEN <<>> ELSE <<"^", "{">> \o [k \in 1..n |-> "*"] \o <<"}">>

\* the point-estimate cell of the one-cell table behind text
ProbeCell(text) == RowCells(LinesOf(text)[1])[2]

\* C5: the stars on a point estimate are 0 for |t| <= 1.65, 1 for
\* 1.65 < |t| <= 1.96, 2 for 1.96 < |t| <= 2.577 and 3 for |t| > 2.577, in
\* t-stats-only, standard-error and confidence-interval mode alike.
C5_StarThresholds ==
  pc = "starred" =>
    LET cell == <<"1", ".", "8">> \o StarSuffix(ExpectedStars(Abs(tprobe)))
    IN /\ ProbeCell(tstars.t) = cell
       /\ ProbeCell(tstars.se) = cell
       /\ ProbeCell(tstars.ci) = cell

\* a negative t-statistic just beyond the second threshold, starred
C5_Witness ==
  /\ pc = "starred"
  /\ tprobe = -1961
  /\ ProbeCell(tstars.ci) = <<"1", ".", "8", "^", "{", "*", "*", "}">>

(***************************************************************************)
(* The layout of the text a single-table call returns.                     *)
(***************************************************************************)
OrigTable == orig.df.items[1]
OrigArgs == BundleOf(orig, 1, orig.print_heading)
OrigMode == Mode(OrigArgs)

HeadLineCount == IF orig.print_heading THEN ColLevels(OrigTable) + 1 ELSE 0
LinesPerRow == IF OrigMode \in {"se", "ci"} THEN 2 ELSE 1

\* the point-estimate line of row r and the line below it
PtLine(r) == LinesOf(s)[HeadLineCount + (r - 1) * LinesPerRow + 1]
AnnLine(r) == LinesOf(s)[HeadLineCount + (r - 1) * LinesPerRow + 2]

\* the cell of column c in the point-estimate line of row r
PtCell(r, c) == RowCells(PtLine(r))[Levels(OrigTable) + c]

OrigCells == {<<r, c>> : r \in 1..NRows(OrigTable), c \in 1..NCols(OrigTable)}
PtOf(rc) == OrigTable.cells[rc[1]][rc[2]]
TGridOf(rc) == Lookup(OrigArgs.tdf.g, OrigTable, rc[1], rc[2])
SeOf(rc) == Lookup(OrigArgs.sedf.g, OrigTable, rc[1], rc[2])
LowerOf(rc) == Lookup(OrigArgs.conf_ints.lo, OrigTable, rc[1], rc[2])
UpperOf(rc) == Lookup(OrigArgs.conf_ints.hi, OrigTable, rc[1], rc[2])

\* C6: a null-equivalent point estimate renders as exactly --- in its cell,
\* in every annotation mode, whatever the float format, the math-delimiter
\* flag and the stars computed for the cell.
C6_NullIsDashes ==
  SingleCall =>
    \A rc \in OrigCells : PtOf(rc) = Null => PtCell(rc[1], rc[2]) = Dashes

\* a null point estimate whose t-statistic earns three stars, encoded with
\* math delimiters
C6_Witness ==
  /\ SingleCall
  /\ OrigArgs.math_delimiters
  /\ OrigArgs.tdf.kind = "grid"
  /\ \E rc \in OrigCells :
       /\ PtOf(rc) = Null
       /\ TGridOf(rc) = -2578
       /\ PtCell(rc[1], rc[2]) = Dashes

NoCell == <<"?">>

\* the cell below the point estimate of column c in the annotation line of
\* row r: the cell at the position of PtCell(r, c)
AnnCell(r, c) ==
  LET cells == RowCells(AnnLine(r))
  IN IF Levels(OrigTable) + c <= Len(cells) THEN cells[Levels(OrigTable) + c] ELSE NoCell

\* float_fmt % x in parentheses, inside the math delimiters when they are on
ParenText(x) ==
  LET inner == <<"(">> \o FormatFloat(OrigArgs.float_fmt, x) \o <<")">>
  IN IF OrigArgs.math_delimiters
       THEN <<"\\", "(">> \o inner \o <<"\\", ")">> ELSE inner

\* C7: in standard-error mode the annotation cell of (row, column) is the
\* formatted error in parentheses when point estimate and error are present,
\* (---) when either is missing, and empty when the standard-error grid has
\* no entry for the row and column.
C7_SEAnnotation ==
  SingleCall /\ OrigMode = "se" =>
    \A rc \in OrigCells :
      AnnCell(rc[1], rc[2]) =
        IF SeOf(rc) = Absent THEN <<>>
        ELSE IF PtOf(rc) = Null \/ SeOf(rc) = Null THEN <<"(", "-", "-", "-", ")">>
        ELSE ParenText(SeOf(rc))

\* the annotation cell of column c in the annotation line of row r, the
\* columns' cells being the last NCols cells of the line
AnnCellOfColumn(r, c) ==
  LET cells == RowCells(AnnLine(r))
  IN cells[Len(cells) - NCols(OrigTable) + c]

\* C8: in confidence-interval mode the annotation cell of (row, column) is
\* [<lower>,<upper>], lower bound first, each in the float format; it is ---
\* when either bound is missing and empty when either bound grid has no
\* entry for the row and column.
C8_CIAnnotation ==
  SingleCall /\ OrigMode = "ci" =>
    \A rc \in OrigCells :
      AnnCellOfColumn(rc[1], rc[2]) =
        IF LowerOf(rc) = Absent \/ UpperOf(rc) = Absent THEN <<>>
        ELSE IF LowerOf(rc) = Null \/ UpperOf(rc) = Null THEN Dashes
        ELSE <<"[">> \o FormatFloat(OrigArgs.float_fmt, LowerOf(rc)) \o <<",">>
               \o FormatFloat(OrigArgs.float_fmt, UpperOf(rc)) \o <<"]">>

\* two columns in confidence-interval mode, one with both bounds (0.8 and
\* 1.2, two decimals) and one with a missing bound
C8_Witness ==
  /\ SingleCall
  /\ OrigMode = "ci"
  /\ NCols(OrigTable) = 2
  /\ AnnCellOfColumn(1, 1) = <<"[", "0", ".", "8", "0", ",", "1", ".", "2", "0", "]">>
  /\ UpperOf(<<1, 2>>) = Null
  /\ AnnCellOfColumn(1, 2) = Dashes

\* the star count of the quotient n / d, d a nonzero number
ExpectedStarsOfQuotient(n, d) ==
  IF Abs(n) * 1000 <= 1650 * Abs(d) THEN 0
  ELSE IF Abs(n) * 1000 <= 1960 * Abs(d) THEN 1
  ELSE IF Abs(n) * 1000 <= 2577 * Abs(d) THEN 2
  ELSE 3

\* the stars cell rc is to carry in standard-error or confidence-interval
\* mode: none under tdf = False, those of the explicit t-grid when one is
\* given, else those of point estimate / standard error
ExpectedStarsAt(rc) ==
  IF OrigArgs.tdf.kind = "false" THEN 0
  ELSE IF OrigArgs.tdf.kind = "grid"
    THEN IF IsNum(TGridOf(rc)) THEN ExpectedStars(Abs(TGridOf(rc))) ELSE 0
  ELSE IF OrigArgs.sedf.kind = "grid" /\ IsNum(SeOf(rc)) /\ SeOf(rc) # 0
    THEN ExpectedStarsOfQuotient(PtOf(rc), SeOf(rc))
  ELSE 0

\* a point-estimate cell: the formatted number and its stars, inside the
\* math delimiters when they are on
PtText(x, n) ==
  LET inner == FormatFloat(OrigArgs.float_fmt, x) \o StarSuffix(n)
  IN IF OrigArgs.math_delimiters
       THEN <<"\\", "(">> \o inner \o <<"\\", ")">> ELSE inner

PrintedLabel(prev, cur) == IF cur # prev THEN cur ELSE NoLabel

\* the level-k label of the entry before entry n of keys (none before the first)
LabelBefore(keys, n, k) == IF n = 1 THEN NoLabel ELSE keys[n - 1][k]

\* the level-k index cell of row r, and the level-k header cell of column l
IndexCellOf(r, k) == RowCells(PtLine(r))[k]
HeaderCellOf(k, l) == RowCells(LinesOf(s)[k])[Levels(OrigTable) + l]

\* C10: in a multi-level row index and in a multi-level column header the
\* label at level k is printed iff it differs from the level-k label of the
\* entry immediately before it (the first is compared with the empty label);
\* otherwise the cell is empty.
C10_LabelSuppression ==
  SingleCall =>
    /\ Levels(OrigTable) > 1 =>
         \A r \in 1..NRows(OrigTable), k \in 1..Levels(OrigTable) :
           IndexCellOf(r, k) =
             PrintedLabel(LabelBefore(OrigTable.index, r, k), OrigTable.index[r][k])
    /\ ColLevels(OrigTable) > 1 /\ orig.print_heading =>
         \A l \in 1..NCols(OrigTable), k \in 1..ColLevels(OrigTable) :
           HeaderCellOf(k, l) =
             PrintedLabel(LabelBefore(OrigTable.columns, l, k), OrigTable.columns[l][k])

\* two rows and two columns that share their first-level label: the second
\* of each prints an empty cell at level 1 and its own label at level 2
C10_Witness ==
  /\ SingleCall
  /\ orig.print_heading
  /\ Levels(OrigTable) = 2 /\ NRows(OrigTable) = 2
  /\ ColLevels(OrigTable) = 2 /\ NCols(OrigTable) = 2
  /\ OrigTable.index = << <<(<<"a">>), (<<"a">>)>>, <<(<<"a">>), (<<"b">>)>> >>
  /\ OrigTable.columns = << <<(<<"x">>), (<<"y">>)>>, <<(<<"x">>), (<<"x">>)>> >>
  /\ IndexCellOf(2, 1) = NoLabel /\ IndexCellOf(2, 2) = <<"b">>
  /\ HeaderCellOf(1, 2) = NoLabel /\ HeaderCellOf(2, 2) = <<"x">>

\* the cells of output line n
CellsOfLine(n) == RowCells(LinesOf(s)[n])

\* the lines the body of the table takes
BodyLineCount == NRows(OrigTable) * LinesPerRow

\* C11: with the heading on, single-level columns give one row of the L
\* index-level names followed by every column label in order, then a rule
\* row; C > 1 column levels give C rows and then a rule row, the last row
\* alone carrying the index-level names and each earlier row L empty leading
\* cells.  With the heading off there is no heading row and no rule row.
C11_HeadingLayout ==
  SingleCall =>
    LET L == Levels(OrigTable)
        CL == ColLevels(OrigTable)
    IN IF orig.print_heading
         THEN /\ Len(LinesOf(s)) = CL + 1 + BodyLineCount
              /\ LinesOf(s)[CL + 1] = RuleRow
              /\ \A k \in 1..CL :
                   /\ Len(CellsOfLine(k)) = L + NCols(OrigTable)
                   /\ \A n \in 1..L :
                        CellsOfLine(k)[n] = IF k = CL THEN OrigTable.names[n] ELSE NoLabel
              /\ CL = 1 => \A c \in 1..NCols(OrigTable) :
                             CellsOfLine(1)[L + c] = OrigTable.columns[c][1]
         ELSE /\ Len(LinesOf(s)) = BodyLineCount
              /\ \A n \in 1..Len(LinesOf(s)) : LinesOf(s)[n] # RuleRow

\* two index levels named i and two column levels: the first header row
\* leads with two empty cells, the second with the two names
C11_Witness ==
  /\ SingleCall
  /\ orig.print_heading
  /\ Levels(OrigTable) = 2 /\ ColLevels(OrigTable) = 2 /\ NCols(OrigTable) = 2
  /\ CellsOfLine(1)[1] = NoLabel /\ CellsOfLine(1)[2] = NoLabel
  /\ CellsOfLine(2)[1] = <<"i">> /\ CellsOfLine(2)[2] = <<"i">>
  /\ LinesOf(s)[3] = RuleRow

\* the delimiters that open and close a point-estimate cell
MathOpen == IF OrigArgs.math_delimiters THEN <<"\\", "(">> ELSE <<>>
MathClose == IF OrigArgs.math_delimiters THEN <<"\\", ")">> ELSE <<>>

\* C12: a numeric point estimate with N stars: for N = 0 the cell is the
\* formatted number alone; for N > 0 the suffix ^{ + N asterisks + } follows
\* the number immediately and lies inside the \( \) pair when the math
\* delimiters are on.
C12_StarSuffixPlacement ==
  SingleCall =>
    \A rc \in OrigCells :
      IsNum(PtOf(rc)) =>
        LET N == ExpectedStarsAt(rc)
            num == FormatFloat(OrigArgs.float_fmt, PtOf(rc))
            cell == PtCell(rc[1], rc[2])
        IN /\ N = 0 => cell = MathOpen \o num \o MathClose
           /\ N > 0 => cell = MathOpen \o num \o <<"^", "{">> \o [k \in 1..N |-> "*"]
                                 \o <<"}">> \o MathClose

\* t = 1.961 on 1.8 with the delimiters on: \(1.8^{**}\)
C12_Witness ==
  /\ SingleCall
  /\ OrigArgs.math_delimiters
  /\ OrigArgs.float_fmt = 1
  /\ PtOf(<<1, 1>>) = 18
  /\ ExpectedStarsAt(<<1, 1>>) = 2
  /\ PtCell(1, 1) = <<"\\", "(", "1", ".", "8", "^", "{", "*", "*", "}", "\\", ")">>

\* the bonus-stats frame b holds, for some row of table t, more values than
\* t has index levels
WideBonus(t, b) ==
  /\ b.kind = "frame"
  /\ \E r \in 1..NRows(t) : b.rows[r].found /\ Len(b.rows[r].vals) > Levels(t)

\* the call on one table has run to its end, by return or by exception
SingleCallOver == ~orig.df.isList /\ pc # "start"

HasLookupMiss(t, a) ==
  \/ a.bonus_stats.kind # "none" /\ \E r \in 1..NRows(t) : ~a.bonus_stats.rows[r].found
  \/ \E r \in 1..NRows(t), c \in 1..NCols(t) :
       \/ a.tdf.kind = "grid" /\ Lookup(a.tdf.g, t, r, c) = Absent
       \/ a.sedf.kind = "grid" /\ Lookup(a.sedf.g, t, r, c) = Absent
       \/ a.conf_ints.kind = "pair"
            /\ (Lookup(a.conf_ints.lo, t, r, c) = Absent
                  \/ Lookup(a.conf_ints.hi, t, r, c) = Absent)

\* C14: an overlay grid (t-statistics, standard errors, confidence bounds,
\* bonus statistics) without an entry for a key of the table does not make
\* the call fail: the lookup miss is not surfaced to the caller.
C14_LookupMissRecovered ==
  SingleCallOver /\ HasLookupMiss(OrigTable, OrigArgs) => exc # "KeyError"

\* C15: duplicate row or column keys make the call warn and still complete:
\* it returns a table with one point-estimate row per index entry and never
\* fails.
C15_DuplicatesWarnOnly ==
  SingleCallOver
    /\ (HasDuplicates(OrigTable.index) \/ HasDuplicates(OrigTable.columns)) =>
      /\ pc = "done"
      /\ warnings # <<>>
      /\ Len(LinesOf(s)) = HeadLineCount + NRows(OrigTable)

\* the table or one of its overlays holds a value that is not a number
HasNonNumeric(t, a) ==
  \E r \in 1..NRows(t), c \in 1..NCols(t) :
    \/ t.cells[r][c] = NonNum
    \/ a.tdf.kind = "grid" /\ Lookup(a.tdf.g, t, r, c) = NonNum
    \/ a.sedf.kind = "grid" /\ Lookup(a.sedf.g, t, r, c) = NonNum
    \/ a.conf_ints.kind = "pair"
         /\ (Lookup(a.conf_ints.lo, t, r, c) = NonNum
               \/ Lookup(a.conf_ints.hi, t, r, c) = NonNum)

\* C16: a cell value the float format cannot render never makes the call
\* fail; the cell shows the value's plain string form.
C16_NonNumericRendered ==
  SingleCallOver /\ HasNonNumeric(OrigTable, OrigArgs) =>
    /\ pc = "done"
    /\ \A rc \in OrigCells : PtOf(rc) = NonNum => PtCell(rc[1], rc[2]) = StrOf(NonNum)

\* the call of orgtbl_to_df has returned, or has run to its end either way
Decoded == pc = "decoded"
DecodeOver == pc \in {"decoded", "raised"} /\ dcall # <<>>

\* the width of the table given to orgtbl_to_df and its header rows
TableWidth == IF dcall.table = <<>> THEN 0 ELSE Len(dcall.table[1])
HeaderRows ==
  IF dcall.col_name_size < Len(dcall.table) THEN dcall.col_name_size ELSE Len(dcall.table)

\* the cells of column c across the header rows, first row first
HeaderCells(c) == [k \in 1..HeaderRows |-> dcall.table[k][c]]

C18_IndexByHeaderRow ==
  DecodeOver /\ dcall.col_name_size = 2 /\ dcall.format_string = <<>>
             /\ Len(dcall.table) >= 2 /\ TableWidth = 2
             /\ HeaderCells(1) # HeaderCells(2)
             /\ dcall.index = IndexName(StrTuple(dcall.table[1])) =>
    /\ Decoded
    /\ frame.index_names = <<StrTuple(dcall.table[1])>>
    /\ frame.index = [r \in 1..(Len(dcall.table) - 2) |-> <<dcall.table[2 + r][1]>>]
    /\ frame.columns = <<StrTuple(dcall.table[2])>>

\* the column names orgtbl_to_df produces for the call
ProducedColumns ==
  IF dcall.col_name_size = 0 THEN [c \in 1..TableWidth |-> Positional(c - 1)]
  ELSE new_colnames(dcall.table, dcall.col_name_size, dcall.format_string)

\* every name asked for as index is one of the names in names
AllAmong(keys, names) ==
  \A k \in 1..Len(keys) : \E c \in 1..Len(names) : names[c] = keys[k]

\* the names of names that are not asked for, in order
Remaining(names, keys) ==
  SelectSeq(names, LAMBDA n : \A k \in 1..Len(keys) : keys[k] # n)

\* no name is carried by two columns
Distinct(names) == \A c, d \in 1..Len(names) : c # d => names[c] # names[d]

\* C19: when the index name(s) asked for are among the column names
\* produced (header rows given, every column name different), those columns
\* become the row index, in the order asked for, and are no longer columns;
\* the other columns keep their order.
C19_IndexPromotion ==
  DecodeOver /\ dcall.table # <<>> /\ dcall.index.names # <<>>
             /\ dcall.col_name_size > 0
             /\ (\A c \in 1..TableWidth :
                   ColName(Take(dcall.table, dcall.col_name_size), dcall.col_name_size,
                           dcall.format_string, c).ok)
             /\ Distinct(ProducedColumns)
             /\ AllAmong(dcall.index.names, ProducedColumns) =>
    /\ Decoded
    /\ frame.index_names = dcall.index.names
    /\ frame.columns = Remaining(ProducedColumns, dcall.index.names)

\* str(x) of a cell value: nan for a missing value
StringForm(x) == IF x = Null THEN <<"n", "a", "n">> ELSE StrOf(x)

\* the text the encoder writes for a cell value
Rendered(x) ==
  IF x = Null THEN Dashes ELSE FormatFloat(OrigArgs.float_fmt, x)

\* the labels of the single-level columns of the encoded table
OrigColumnLabels == [c \in 1..NCols(OrigTable) |-> OrigTable.columns[c][1]]

RoundTripDone == Decoded /\ ~OrigArgs.math_delimiters

\* C20 as stated: the round trip through df_to_orgtbl and orgtbl_to_df (one
\* header level, no overlays, no math delimiters, one header row) gives back
\* the column names and, for every row and column, the string form of the
\* value.
C20_RoundTripStringForm ==
  RoundTripDone =>
    /\ SubSeq(frame.columns, Levels(OrigTable) + 1, Len(frame.columns)) = OrigColumnLabels
    /\ \A rc \in OrigCells :
         frame.data[rc[1]][Levels(OrigTable) + rc[2]] = StringForm(PtOf(rc))

\* C20 as the code has it: the names that come back are the index-level
\* names followed by the column names, and the cell of every row and column
\* is the text the encoder wrote for the value: the number in the float
\* format, --- for a missing value.
C20_RoundTripRendered ==
  RoundTripDone =>
    /\ frame.columns = OrigTable.names \o OrigColumnLabels
    /\ Len(frame.data) = NRows(OrigTable)
    /\ \A rc \in OrigCells :
         frame.data[rc[1]][Levels(OrigTable) + rc[2]] = Rendered(PtOf(rc))

\* 1.8 under %.2f comes back as 1.80, a missing value as ---
C20_Witness ==
  /\ RoundTripDone
  /\ OrigArgs.float_fmt = 2
  /\ Levels(OrigTable) = 1 /\ NCols(OrigTable) = 2
  /\ PtOf(<<1, 1>>) = 18 /\ PtOf(<<1, 2>>) = Null
  /\ frame.columns = <<NoLabel, <<"A">>, <<"B">>>>
  /\ frame.data[1] = << <<"r">>, <<"1", ".", "8", "0">>, <<"-", "-", "-">> >>

(***************************************************************************)
(* The order of the lines of the body.                                     *)
(***************************************************************************)
\* the lines below the heading
BodyLines == SubSeq(LinesOf(s), HeadLineCount + 1, Len(LinesOf(s)))

\* the text a point-estimate cell holds for value x with n stars
PointText(x, n) ==
  IF x = Null THEN Dashes
  ELSE IF x = NonNum THEN StrOf(x)
  ELSE PtText(x, n)

\* line is the point-estimate line of row r: the row's labels lead it and
\* the row's point estimates follow, one per column
IsPointLineOf(line, r) ==
  LET cells == RowCells(line)
      L == Levels(OrigTable)
  IN /\ Len(cells) = L + NCols(OrigTable)
     /\ \A k \in 1..L :
          cells[k] = IF L = 1 THEN OrigTable.index[r][1]
                     ELSE PrintedLabel(LabelBefore(OrigTable.index, r, k),
                                       OrigTable.index[r][k])
     /\ \A c \in 1..NCols(OrigTable) :
          cells[L + c] = PointText(PtOf(<<r, c>>), ExpectedStarsAt(<<r, c>>))

\* the annotation line the overlays give row r
AnnotationLineOf(r) ==
  se_linestart(OrigTable, OrigArgs.bonus_stats, r)
    \o Flatten([c \in 1..NCols(OrigTable) |->
         <<" ", " ">> \o (IF OrigMode = "se" THEN SEEntry(OrigTable, OrigArgs, r, c)
                          ELSE CIEntry(OrigTable, OrigArgs, r, c))])
    \o <<"|">>

\* C21: with standard errors or confidence intervals the body of a table of
\* R rows is 2R lines, in index order, the point-estimate line of each row
\* immediately followed by the annotation line of that row; in plain and
\* t-only mode the body is the R point-estimate lines in index order.
C21_RowOrdering ==
  SingleCall =>
    LET R == NRows(OrigTable)
        per == IF OrigMode \in {"se", "ci"} THEN 2 ELSE 1
    IN /\ Len(BodyLines) = per * R
       /\ \A r \in 1..R :
            /\ IsPointLineOf(BodyLines[per * (r - 1) + 1], r)
            /\ per = 2 => BodyLines[per * (r - 1) + 2] = AnnotationLineOf(r)

\* two rows of different labels, point estimates and standard errors: four
\* lines, the second row's estimate on the third and its error on the fourth
C21_Witness ==
  /\ SingleCall
  /\ OrigMode = "se"
  /\ NRows(OrigTable) = 2
  /\ OrigTable.index[1] # OrigTable.index[2]
  /\ PtOf(<<1, 1>>) # PtOf(<<2, 1>>)
  /\ IsNum(SeOf(<<1, 1>>)) /\ IsNum(SeOf(<<2, 1>>)) /\ SeOf(<<1, 1>>) # SeOf(<<2, 1>>)
  /\ Len(BodyLines) = 4
  /\ IsPointLineOf(BodyLines[3], 2)
  /\ BodyLines[4] = AnnotationLineOf(2)
  /\ BodyLines[2] # BodyLines[4]

(***************************************************************************)
(* The readers of get_dataframe.                                           *)
(***************************************************************************)
GdfOver == pc \in {"done", "raised"} /\ gdf # <<>>

\* the places in gdf.calls of the calls of pass p
CallsOfPass(p) == {k \in 1..Len(gdf.calls) : gdf.calls[k].pass = p}

\* the place in Readers of reader
ReaderPlace(reader) == CHOOSE n \in 1..Len(Readers) : Readers[n] = reader

\* the calls of pass p are readers next to each other in the fixed order,
\* from SPSS on when read_file is given a path and from Parquet on when not,
\* and each of them but the last has failed with a tolerated error
InFixedOrder(p) ==
  \A k \in CallsOfPass(p) :
    LET call == gdf.calls[k]
    IN /\ call.reader = "spss" => call.stream = "path"
       /\ IF k - 1 \in CallsOfPass(p)
            THEN /\ ReaderPlace(call.reader) = ReaderPlace(gdf.calls[k - 1].reader) + 1
                 /\ gdf.calls[k - 1].outcome = "tolerated"
            ELSE call.reader = IF call.stream = "path" THEN "spss" ELSE "parquet"

\* C22: in one pass the readers are tried in the order SPSS (for a path
\* only), Parquet, Stata, CSV, Excel, Feather, fixed-width; the frame of the
\* first reader that does not fail is returned and no reader is invoked
\* after it; the Excel reader is given the caller's sheet; when every reader
\* fails with an error it tolerates the call raises ValueError.
C22_ReaderFallback ==
  gdf # <<>> =>
    /\ InFixedOrder(1) /\ InFixedOrder(2)
    /\ \A k \in 1..Len(gdf.calls) :
         /\ gdf.calls[k].reader = "excel" => gdf.calls[k].sheet = gdf.sheet
         /\ gdf.calls[k].outcome = "ok" =>
              k = Len(gdf.calls) /\ pc = "done" /\ gdf.result = gdf.calls[k].reader
    /\ pc = "done" => gdf.calls[Len(gdf.calls)].outcome = "ok"
    /\ GdfOver /\ (\A k \in 1..Len(gdf.calls) : gdf.calls[k].outcome = "tolerated") =>
         /\ pc = "raised" /\ exc = "ValueError"
         /\ gdf.calls[Len(gdf.calls)].reader = "fwf"

\* a path whose handle no reader takes and whose Excel reader, the fifth of
\* the second pass, returns the sheet asked for
C22_Witness ==
  /\ pc = "done"
  /\ gdf # <<>>
  /\ gdf.fn = "path" /\ gdf.sheet = "sheety"
  /\ Len(gdf.calls) = 11
  /\ gdf.calls[7].reader = "spss" /\ gdf.calls[7].pass = 2
  /\ gdf.calls[11].reader = "excel" /\ gdf.calls[11].sheet = "sheety"
  /\ gdf.result = "excel"

\* the stream given to get_dataframe reports itself non-seekable, and
\* read_file has gone past line 513
NonSeekableRead == gdf # <<>> /\ gdf.fn = "nonseekable" /\ pc \in {"readers", "done", "raised"}

\* C23 as stated: a stream that reports itself non-seekable is copied into
\* an in-memory buffer exactly once, seek is never called on it, and every
\* reader tried after a failed reader starts at offset 0 of that buffer.
C23_BufferedOnce ==
  NonSeekableRead =>
    /\ gdf.copies = 1
    /\ gdf.seeks = 0
    /\ \A k \in 2..Len(gdf.calls) :
         gdf.calls[k].stream = "buffer" /\ gdf.calls[k].pos = 0

\* C23 as the code has it: the readers start at offset 0 of that buffer,
\* or, when the content is PGP data that gpg decrypts, at offset 0 of the
\* in-memory buffer of the decrypted content.
C23_BufferedOrDecrypted ==
  NonSeekableRead =>
    /\ gdf.copies = 1
    /\ gdf.seeks = 0
    /\ \A k \in 1..Len(gdf.calls) :
         /\ gdf.calls[k].stream =
              IF gdf.pgp /\ gdf.gpg = "ok" THEN "decrypted" ELSE "buffer"
         /\ gdf.calls[k].pos = 0

\* Parquet and Stata fail on the copy of a non-seekable stream and the CSV
\* reader, the third to read it, returns its frame
C23_Witness ==
  /\ NonSeekableRead
  /\ pc = "done"
  /\ ~gdf.pgp
  /\ Len(gdf.calls) = 3
  /\ gdf.calls[3] = [reader |-> "csv", pass |-> 2, stream |-> "buffer", pos |-> 0,
                     sheet |-> "n/a", outcome |-> "ok"]
  /\ gdf.copies = 1 /\ gdf.seeks = 0

(***************************************************************************)
(* The message _compose_message builds.                                    *)
(***************************************************************************)
ComposeOver == pc \in {"composed", "raised"} /\ msg # <<>>

\* a start or end tag that is neither void nor self-closing
TrackedTag(ev) == ev.kind # "startend" /\ ev.tag \notin _VOID_TAGS

RECURSIVE Cancel(_)
\* events with every start tag that its own end tag follows at once taken
\* out together with that end tag, over and over
Cancel(events) ==
  LET pairs == {i \in 1..(Len(events) - 1) :
                  /\ events[i].kind = "start" /\ events[i + 1].kind = "end"
                  /\ events[i].tag = events[i + 1].tag}
  IN IF pairs = {} THEN events
     ELSE LET i == CHOOSE j \in pairs : TRUE
          IN Cancel(SubSeq(events, 1, i - 1) \o SubSeq(events, i + 2, Len(events)))

\* every end tag closes the tag opened last among those still open, and no
\* tag is left open
ProperlyNested(events) == Cancel(SelectSeq(events, TrackedTag)) = <<>>

\* the addresses of the call all parse
GoodAddresses ==
  \A raw \in {msg.to, msg.from_email} \cup {msg.content.cc[k] : k \in 1..Len(msg.content.cc)} :
    parseaddr(raw)[2] # ""

\* the message has the plain part first and the HTML part second
PlainThenHtml ==
  /\ msg.message.type = "multipart/alternative"
  /\ Len(msg.message.parts) = 2
  /\ msg.message.parts[1] = [type |-> "text/plain", payload |-> msg.content.body]
  /\ msg.message.parts[2] = [type |-> "text/html", payload |-> msg.content.html_body.tags]

\* C24 as stated: with an html_body, _compose_message raises ValueError iff
\* the tags of html_body are not properly nested; when it does not raise the
\* message is multipart/alternative, plain part first and HTML part second.
C24_RaisesIffMisnested ==
  ComposeOver /\ msg.content.html_body.given =>
    /\ (pc = "raised" /\ exc = "ValueError") <=> ~ProperlyNested(msg.content.html_body.tags)
    /\ pc = "composed" => PlainThenHtml

\* C24 as the code has it: the same, for a call whose to, from and cc
\* addresses all parse.
C24_RaisesIffMisnestedGoodAddresses ==
  ComposeOver /\ msg.content.html_body.given /\ GoodAddresses =>
    /\ (pc = "raised" /\ exc = "ValueError") <=> ~ProperlyNested(msg.content.html_body.tags)
    /\ pc = "composed" => PlainThenHtml

\* <b><br><p/></b>: a void tag and a self-closing tag inside a closed pair
C24_Witness ==
  /\ pc = "composed"
  /\ msg # <<>>
  /\ msg.content.html_body.given
  /\ msg.content.html_body.tags =
       <<[kind |-> "start", tag |-> "b"], [kind |-> "start", tag |-> "br"],
         [kind |-> "startend", tag |-> "b"], [kind |-> "end", tag |-> "b"]>>
  /\ PlainThenHtml


(***************************************************************************)
(* Sending, and the credentials file.                                      *)
(***************************************************************************)
\* a call of email_from_ligon that is over
MailOver == pc \in {"done", "raised"} /\ mail # <<>>

\* C25: a send that fails with HTTP status 429 is issued again, the response
\* of the first attempt that succeeds is what the sender returns, and every
\* attempt is sent with userId "me".  The module has one place that sends
\* (line 197); of its attempts the claim says that each one that met a 429
\* is followed by another attempt for the same message, and that the call
\* does not end in the 429 error.
C25_RetriesAfter429 ==
  MailOver =>
    /\ \A k \in 1..Len(mail.sends) :
         /\ mail.sends[k].userId = "me"
         /\ mail.sends[k].outcome = "HttpError 429" =>
              \E j \in (k + 1)..Len(mail.sends) : mail.sends[j].to = mail.sends[k].to
    /\ ~(/\ pc = "raised"
         /\ exc = "HttpError"
         /\ mail.sends # <<>>
         /\ mail.sends[Len(mail.sends)].outcome = "HttpError 429")

\* the variable names a path when it is set to something other than ""
EnvSet == mail.env # Unset /\ mail.env # ""

\* the priority order of the candidates
PriorityOrder ==
  IF EnvSet
    THEN <<expanduser(mail.env), "/home/u/.ligonlibrary/email_secret.json",
           ".credentials/email_secret.json">>
    ELSE <<"/home/u/.ligonlibrary/email_secret.json", ".credentials/email_secret.json">>

\* _resolve_credentials_path has returned or raised
Resolved == mail # <<>> /\ pc # "email_from_ligon"

\* C26: _resolve_credentials_path returns the first path of the priority
\* order (the one the environment names, the one under the home directory,
\* the one under the working directory) that exists, and raises
\* FileNotFoundError iff none of them exists.
C26_FirstExisting ==
  Resolved =>
    LET cs == PriorityOrder
        none == \A k \in 1..Len(cs) : cs[k] \notin mail.exists
    IN /\ none <=> mail.credential_path = NoPath
       /\ mail.credential_path = NoPath => pc = "raised" /\ exc = "FileNotFoundError"
       /\ ~none =>
            \E k \in 1..Len(cs) :
              /\ mail.credential_path = cs[k]
              /\ cs[k] \in mail.exists
              /\ \A j \in 1..(k - 1) : cs[j] \notin mail.exists

\* the variable names ~/creds.json, which does not exist, and both default
\* locations do: the one under the home directory is returned
C26_Witness ==
  /\ Resolved
  /\ mail.env = "~/creds.json"
  /\ mail.exists = {HomeDefault, Legacy}
  /\ mail.credential_path = HomeDefault


(***************************************************************************)
(* The annotation mode of a call.                                          *)
(***************************************************************************)
\* the mode the overlays supplied call for
ClaimedMode ==
  IF OrigArgs.conf_ints.kind # "none" THEN "ci"
  ELSE IF OrigArgs.sedf.kind # "none" THEN "se"
  ELSE IF OrigArgs.tdf.kind # "none" THEN "t"
  ELSE "plain"

HasChar(line, ch) == \E k \in 1..Len(line) : line[k] = ch

\* C27: the mode of a single-table encode is the one the overlays supplied
\* call for (confidence intervals if conf_ints is supplied, whatever sedf
\* is; else standard errors if sedf is supplied; else t-statistics only if
\* tdf is not None; else plain) and every row of the call is rendered in
\* it: two lines per row with a bracketed interval on every second line, or
\* two lines per row with no bracket on any second line and the error in
\* parentheses, or one starred line per row, or one plain line per row.
\* The only call that does not return is the t-only one with tdf = False.
C27_ModeSelection ==
  SingleCallOver =>
    LET m == ClaimedMode
        R == NRows(OrigTable)
    IN /\ pc = "raised" <=> (m = "t" /\ OrigArgs.tdf.kind = "false")
       /\ pc = "raised" => exc = "TypeError"
       /\ Returned =>
            /\ Len(BodyLines) = (IF m \in {"ci", "se"} THEN 2 ELSE 1) * R
            /\ \A r \in 1..R :
                 CASE m = "ci" ->
                        /\ HasChar(BodyLines[2 * r], "[")
                        /\ ~HasChar(BodyLines[2 * r], "(")
                   [] m = "se" ->
                        /\ ~HasChar(BodyLines[2 * r], "[")
                        /\ ~is_missing(PtOf(<<r, 1>>)) => HasChar(BodyLines[2 * r], "(")
                   [] m = "t" ->
                        ~is_missing(PtOf(<<r, 1>>)) => HasChar(BodyLines[r], "*")
                   [] m = "plain" -> ~HasChar(BodyLines[r], "*")

\* conf_ints and sedf both supplied, two rows: every second line holds an
\* interval and none holds a standard error
C27_Witness ==
  /\ SingleCallOver
  /\ Returned
  /\ OrigArgs.conf_ints.kind # "none"
  /\ OrigArgs.sedf.kind # "none"
  /\ NRows(OrigTable) = 2
  /\ Len(BodyLines) = 4
  /\ HasChar(BodyLines[2], "[") /\ HasChar(BodyLines[4], "[")
  /\ ~HasChar(BodyLines[2], "(") /\ ~HasChar(BodyLines[4], "(")


(***************************************************************************)
(* The cells of an annotation line.                                        *)
(***************************************************************************)
\* C28: with standard errors or confidence intervals every annotation line
\* has as many cells as the point-estimate line above it, one per index
\* level and one per column, whatever is present, missing or absent from
\* the grids and with or without bonus statistics.
C28_RowWellFormed ==
  SingleCall /\ ClaimedMode \in {"se", "ci"} =>
    \A r \in 1..NRows(OrigTable) :
      /\ Len(RowCells(BodyLines[2 * r - 1])) = Levels(OrigTable) + NCols(OrigTable)
      /\ Len(RowCells(BodyLines[2 * r])) = Len(RowCells(BodyLines[2 * r - 1]))


(***************************************************************************)
(* The steps of a call on a list of tables.                                *)
(***************************************************************************)
\* C29: a call on a list of N tables makes N single-table encodes, each
\* step taking one table off the list that remains, and then returns; on an
\* empty list it returns the empty text and encodes nothing.
C29_StackTerminates ==
  orig.df.isList /\ InContract(orig) =>
    /\ pc # "raised"
    /\ pc \in {"start", "rec"} => Len(df.items) = NTables(orig) - Len(blocks)
    /\ pc = "done" => Len(blocks) = NTables(orig) /\ df.items = <<>>
    /\ pc = "done" /\ NTables(orig) = 0 => s = <<>> /\ blocks = <<>>


(***************************************************************************)
(* Stacking as a fold over tables and their overlays.                      *)
(***************************************************************************)
Overlays == {"tdf", "sedf", "conf_ints", "float_fmt", "bonus_stats", "math_delimiters"}

\* what the caller supplied of overlay x for the k-th table
SuppliedFor(x, k) ==
  IF orig[x].isList THEN orig[x].items[k] ELSE orig[x].items[1]

\* the text of block k: table k under the overlays supplied for it and the
\* heading flag of the single-table encode k
BlockOf(k) ==
  EncodeText(TableOf(orig, k),
             [tdf |-> SuppliedFor("tdf", k), sedf |-> SuppliedFor("sedf", k),
              conf_ints |-> SuppliedFor("conf_ints", k),
              float_fmt |-> SuppliedFor("float_fmt", k),
              bonus_stats |-> SuppliedFor("bonus_stats", k),
              math_delimiters |-> SuppliedFor("math_delimiters", k),
              print_heading |-> blocks[k].args.print_heading])

\* block_1 + "|-" + block_2 + ... + block_n
RECURSIVE FoldBlocks(_)
FoldBlocks(n) ==
  IF n = 0 THEN <<>>
  ELSE IF n = 1 THEN BlockOf(1)
  ELSE FoldBlocks(n - 1) \o <<"|", "-", "\n">> \o BlockOf(n)

\* C30: the text a call on a list of tables returns is the left-to-right
\* fold over the tables: single-table encode k is given table k, element k
\* of every overlay supplied as a list and the value itself of every
\* overlay supplied as a string, a boolean or None, and the text is
\* block_1 + "|-" + block_2 + ... + block_N in input order.
C30_StackingIsFold ==
  StackCallDone =>
    /\ Len(blocks) = NTables(orig)
    /\ \A k \in 1..NTables(orig) :
         /\ blocks[k].tbl = TableOf(orig, k)
         /\ \A x \in Overlays : blocks[k].args[x] = SuppliedFor(x, k)
    /\ s = FoldBlocks(NTables(orig))

\* three tables, every overlay a list whose second element differs from its
\* first and third, the second table of other columns than the first
C30_Witness ==
  /\ StackCallDone
  /\ NTables(orig) = 3
  /\ \A x \in Overlays :
       /\ orig[x].isList
       /\ orig[x].items[2] # orig[x].items[1]
  /\ TableOf(orig, 2) # TableOf(orig, 1)
  /\ s = BlockOf(1) \o <<"|", "-", "\n">> \o BlockOf(2) \o <<"|", "-", "\n">> \o BlockOf(3)
  /\ BlockOf(2) # BlockOf(1)

====
